---- MODULE Spec2Model ----
(***************************************************************************)
(* Model of the cointracking-importer conversion core: the row parsers,    *)
(* the Native Index, the Fee Ledger (processedFeeHashes), the Token,       *)
(* Native, Internal and NFT transformers, and the two orchestrators        *)
(* (convertCommand and autoConvert) that run them.                         *)
(*                                                                         *)
(* Conventions                                                             *)
(*  - a CsvRow is a record of raw cells, one per semantic field of         *)
(*    FIELD_PATTERNS; every cell is a string;                              *)
(*  - numbers are naturals; normalizeNumber maps a raw cell to a number    *)
(*    and String(n) is ToString(n), so "" (not applicable) and "0" differ; *)
(*  - a template literal `${prefix} ${txHash}` is the pair                 *)
(*    <<prefix, txHash>>, so a row's hash is Comment[2];                   *)
(*  - `CoinTrackingRow | null` is a sequence of zero or one rows;          *)
(*  - a function that mutates the ledger returns the new ledger as `fees`. *)
(***************************************************************************)
EXTENDS Integers, Sequences, FiniteSets, TLC

\* ---------------------------------------------------------------- bounds
\* Total number of CSV rows over all input files of one run.
MaxRecords == 3

\* ------------------------------------------------------------ vocabulary
\* The configured wallet as typed by the caller (mixed case) and the other
\* addresses occurring in the exports.
RawUser == "0xUser"
User == "0xuser"
Other == "0xother"
ZERO_ADDRESS == "0x0000000000000000000000000000000000000000"

NativeSymbol == "ETH"
Exchange == "Mantle"

\* String.prototype.toLowerCase on the strings of the model.
toLowerCase(s) ==
  CASE s = "0xUser" -> "0xuser"
    [] s = "0xA" -> "0xa"
    [] OTHER -> s

toAddress(s) == toLowerCase(s)

toTxHash(s) == toLowerCase(s)

isZeroAddress(addr) == addr = ZERO_ADDRESS

\* normalizeNumber: a cell that is no finite number, or is empty, gives 0.
normalizeNumber(s) ==
  CASE s = "1" -> 1
    [] s = "2" -> 2
    [] s = "3" -> 3
    [] OTHER -> 0

\* ConvertConfig built by the orchestrators.
config == [address |-> toAddress(RawUser), nativeSymbol |-> NativeSymbol,
           exchange |-> Exchange]

\* ----------------------------------------------------------- row builders
makeRow(type, buy, sell, fee, exchange, comment, date) ==
  [Type |-> type,
   BuyAmount |-> buy.amount, BuyCurrency |-> buy.currency,
   SellAmount |-> sell.amount, SellCurrency |-> sell.currency,
   Fee |-> fee.amount, FeeCurrency |-> fee.currency,
   Exchange |-> exchange, TradeGroup |-> "",
   Comment |-> comment, Date |-> date]

Empty == [amount |-> "", currency |-> ""]

makeDeposit(amount, currency, fee, exchange, comment, date) ==
  makeRow("Deposit", [amount |-> amount, currency |-> currency], Empty,
          fee, exchange, comment, date)

makeWithdrawal(amount, currency, fee, exchange, comment, date) ==
  makeRow("Withdrawal", Empty, [amount |-> amount, currency |-> currency],
          fee, exchange, comment, date)

\* The `applyFee` idiom shared by every transformer: the fee goes on the row
\* iff it is positive and the hash is not yet in the ledger, and the hash is
\* then added to the ledger.
applyFeeOf(fee, txHash, processedFeeHashes) ==
  fee > 0 /\ txHash \notin processedFeeHashes

feeCell(applyFee, fee, cfg) ==
  [amount |-> IF applyFee THEN ToString(fee) ELSE "",
   currency |-> IF applyFee THEN cfg.nativeSymbol ELSE ""]

\* A ledger that forgets: the hash is never recorded.
claimFeeForgets(applyFee, txHash, processedFeeHashes) == processedFeeHashes

claimFee(applyFee, txHash, processedFeeHashes) ==
  IF applyFee THEN processedFeeHashes \cup {txHash} ELSE processedFeeHashes

\* ------------------------------------------------------------ native.ts
parseNativeRow(row) ==
  [txHash |-> toTxHash(row.txHash), dateTime |-> row.dateTime,
   from |-> toAddress(row.from), to |-> toAddress(row.to),
   valueIn |-> normalizeNumber(row.valueIn),
   valueOut |-> normalizeNumber(row.valueOut),
   fee |-> normalizeNumber(row.fee), method |-> row.method]

parseNativeRows(rows) ==
  SelectSeq([i \in 1..Len(rows) |-> parseNativeRow(rows[i])],
            LAMBDA tx : tx.txHash # "")

\* An index that keeps the first record of a hash.
indexNativeByHashFirstWins(txs) ==
  LET keys == {txs[i].txHash : i \in 1..Len(txs)} \ {""}
      first(h) == CHOOSE i \in 1..Len(txs) :
                    /\ txs[i].txHash = h
                    /\ \A j \in 1..Len(txs) : txs[j].txHash = h => j >= i
  IN [h \in keys |-> txs[first(h)]]

\* Map<TxHash, ParsedNativeTx>: a function whose domain is the set of keys;
\* map.set overwrites, so the last record of a hash wins.
indexNativeByHash(txs) ==
  LET keys == {txs[i].txHash : i \in 1..Len(txs)} \ {""}
      last(h) == CHOOSE i \in 1..Len(txs) :
                   /\ txs[i].txHash = h
                   /\ \A j \in 1..Len(txs) : txs[j].txHash = h => j <= i
  IN [h \in keys |-> txs[last(h)]]

\* shouldSkipNativeTx that looks at the two value cells only.
shouldSkipNativeTxNoValue(tx) == tx.valueIn = 0 /\ tx.valueOut = 0

shouldSkipNativeTx(tx) == tx.valueIn = 0 /\ tx.valueOut = 0 /\ tx.fee = 0

\* classifyNativeTx without the self-transfer rule.
classifyNativeTxNoBridge(tx, address) ==
  LET isIncoming == tx.to = address /\ tx.from # address
      isOutgoing == tx.from = address
  IN IF tx.valueIn > 0 /\ isIncoming THEN "deposit"
     ELSE IF tx.valueOut > 0 /\ isOutgoing THEN "withdrawal"
     ELSE IF tx.valueIn = 0 /\ tx.valueOut = 0 /\ tx.fee > 0 THEN "fee-only"
     ELSE "unknown"

classifyNativeTx(tx, address) ==
  LET isSelf == tx.from = address /\ tx.to = address
      isIncoming == tx.to = address /\ tx.from # address
      isOutgoing == tx.from = address
  IN IF tx.valueIn > 0 /\ isSelf THEN "bridge-deposit"
     ELSE IF tx.valueIn > 0 /\ isIncoming THEN "deposit"
     ELSE IF tx.valueOut > 0 /\ isOutgoing THEN "withdrawal"
     ELSE IF tx.valueIn = 0 /\ tx.valueOut = 0 /\ tx.fee > 0 THEN "fee-only"
     ELSE "unknown"

\* transformNativeTx: the ledger is claimed before the record is classified.
transformNativeTx(tx, cfg, processedFeeHashes) ==
  IF shouldSkipNativeTx(tx)
  THEN [rows |-> <<>>, fees |-> processedFeeHashes]
  ELSE
    LET applyFee == applyFeeOf(tx.fee, tx.txHash, processedFeeHashes)
        fees == claimFee(applyFee, tx.txHash, processedFeeHashes)
        fee == feeCell(applyFee, tx.fee, cfg)
        kind == classifyNativeTx(tx, cfg.address)
        methodComment(dflt) ==
          IF tx.method # "" THEN <<tx.method, tx.txHash>> ELSE <<dflt, tx.txHash>>
    IN CASE kind = "bridge-deposit" ->
              [rows |-> <<makeDeposit(ToString(tx.valueIn), cfg.nativeSymbol, fee,
                                      cfg.exchange, <<"Bridge deposit", tx.txHash>>,
                                      tx.dateTime)>>,
               fees |-> fees]
         [] kind = "deposit" ->
              [rows |-> <<makeDeposit(ToString(tx.valueIn), cfg.nativeSymbol, fee,
                                      cfg.exchange, <<"Native in", tx.txHash>>,
                                      tx.dateTime)>>,
               fees |-> fees]
         [] kind = "withdrawal" ->
              [rows |-> <<makeWithdrawal(ToString(tx.valueOut), cfg.nativeSymbol, fee,
                                         cfg.exchange, methodComment("Native out"),
                                         tx.dateTime)>>,
               fees |-> fees]
         [] kind = "fee-only" ->
              [rows |-> <<makeRow("Other Fee", Empty,
                                  [amount |-> ToString(tx.fee),
                                   currency |-> cfg.nativeSymbol],
                                  Empty, cfg.exchange, methodComment("Fee"),
                                  tx.dateTime)>>,
               fees |-> fees]
         [] OTHER -> [rows |-> <<>>, fees |-> fees]

\* The same pipeline without the skipHashes filter.
RECURSIVE mapNativeNoSkip(_, _, _, _)
mapNativeNoSkip(txs, cfg, processedFeeHashes, skipHashes) ==
  IF txs = <<>>
  THEN [rows |-> <<>>, fees |-> processedFeeHashes]
  ELSE LET r == transformNativeTx(Head(txs), cfg, processedFeeHashes)
           rest == mapNativeNoSkip(Tail(txs), cfg, r.fees, skipHashes)
       IN [rows |-> r.rows \o rest.rows, fees |-> rest.fees]

\* txs.filter(skip).map(transformNativeTx).filter(non-null), left to right.
RECURSIVE mapNative(_, _, _, _)
mapNative(txs, cfg, processedFeeHashes, skipHashes) ==
  IF txs = <<>>
  THEN [rows |-> <<>>, fees |-> processedFeeHashes]
  ELSE IF Head(txs).txHash \in skipHashes
  THEN mapNative(Tail(txs), cfg, processedFeeHashes, skipHashes)
  ELSE LET r == transformNativeTx(Head(txs), cfg, processedFeeHashes)
           rest == mapNative(Tail(txs), cfg, r.fees, skipHashes)
       IN [rows |-> r.rows \o rest.rows, fees |-> rest.fees]

transformNativeRows(rows, cfg, processedFeeHashes, skipHashes) ==
  mapNative(parseNativeRows(rows), cfg, processedFeeHashes, skipHashes)

\* ------------------------------------------------------------ tokens.ts
parseTokenRow(row) ==
  [txHash |-> toTxHash(row.txHash), dateTime |-> row.dateTime,
   from |-> toAddress(row.from), to |-> toAddress(row.to),
   value |-> normalizeNumber(row.tokenValue),
   symbol |-> IF row.tokenSymbol # "" THEN row.tokenSymbol ELSE "UNKNOWN"]

parseTokenRows(rows) ==
  SelectSeq([i \in 1..Len(rows) |-> parseTokenRow(rows[i])],
            LAMBDA tx : tx.txHash # "" /\ tx.value > 0)

\* groupByTxHash builds a Map, which iterates in insertion order of its keys:
\* `keys` is the hashes in order of first occurrence, `legs[h]` the transfers
\* of h in input order.
RECURSIVE groupKeys(_, _)
groupKeys(transfers, seen) ==
  IF transfers = <<>> THEN <<>>
  ELSE IF Head(transfers).txHash \in seen
  THEN groupKeys(Tail(transfers), seen)
  ELSE <<Head(transfers).txHash>>
         \o groupKeys(Tail(transfers), seen \cup {Head(transfers).txHash})

groupByTxHash(transfers) ==
  [keys |-> groupKeys(transfers, {}),
   legs |-> [h \in {transfers[i].txHash : i \in 1..Len(transfers)} |->
               SelectSeq(transfers, LAMBDA t : t.txHash = h)]]

classifyTransfers(transfers, userAddress) ==
  LET addr == toAddress(userAddress)
  IN [outgoing |-> SelectSeq(transfers,
                     LAMBDA t : t.from = addr /\ t.to # addr /\ ~isZeroAddress(t.from)),
      incoming |-> SelectSeq(transfers, LAMBDA t : t.to = addr /\ t.from # addr)]

isSimpleSwap(classified) ==
  Len(classified.outgoing) = 1 /\ Len(classified.incoming) = 1

\* createSwapRow with the two sides exchanged.
createSwapRowSidesExchanged(outgoing, incoming, fee, cfg, processedFeeHashes) ==
  LET applyFee == applyFeeOf(fee, outgoing.txHash, processedFeeHashes)
  IN [rows |-> <<makeRow("Trade",
                         [amount |-> ToString(outgoing.value), currency |-> outgoing.symbol],
                         [amount |-> ToString(incoming.value), currency |-> incoming.symbol],
                         feeCell(applyFee, fee, cfg), cfg.exchange,
                         <<"Swap", outgoing.txHash>>, outgoing.dateTime)>>,
      fees |-> claimFee(applyFee, outgoing.txHash, processedFeeHashes)]

createSwapRow(outgoing, incoming, fee, cfg, processedFeeHashes) ==
  LET applyFee == applyFeeOf(fee, outgoing.txHash, processedFeeHashes)
  IN [rows |-> <<makeRow("Trade",
                         [amount |-> ToString(incoming.value), currency |-> incoming.symbol],
                         [amount |-> ToString(outgoing.value), currency |-> outgoing.symbol],
                         feeCell(applyFee, fee, cfg), cfg.exchange,
                         <<"Swap", outgoing.txHash>>, outgoing.dateTime)>>,
      fees |-> claimFee(applyFee, outgoing.txHash, processedFeeHashes)]

createDepositRow(transfer, fee, cfg, processedFeeHashes) ==
  LET applyFee == applyFeeOf(fee, transfer.txHash, processedFeeHashes)
      isMint == isZeroAddress(transfer.from)
  IN [rows |-> <<makeRow(IF isMint THEN "Airdrop" ELSE "Deposit",
                         [amount |-> ToString(transfer.value), currency |-> transfer.symbol],
                         Empty, feeCell(applyFee, fee, cfg), cfg.exchange,
                         <<"Token in", transfer.txHash>>, transfer.dateTime)>>,
      fees |-> claimFee(applyFee, transfer.txHash, processedFeeHashes)]

\* createWithdrawalRow without the burn test.
createWithdrawalRowNoBurn(transfer, fee, cfg, processedFeeHashes) ==
  LET applyFee == applyFeeOf(fee, transfer.txHash, processedFeeHashes)
  IN [rows |-> <<makeRow("Withdrawal", Empty,
                         [amount |-> ToString(transfer.value), currency |-> transfer.symbol],
                         feeCell(applyFee, fee, cfg), cfg.exchange,
                         <<"Token out", transfer.txHash>>, transfer.dateTime)>>,
      fees |-> claimFee(applyFee, transfer.txHash, processedFeeHashes)]

createWithdrawalRow(transfer, fee, cfg, processedFeeHashes) ==
  LET applyFee == applyFeeOf(fee, transfer.txHash, processedFeeHashes)
      isBurn == isZeroAddress(transfer.to)
  IN [rows |-> <<makeRow("Withdrawal", Empty,
                         [amount |-> ToString(transfer.value), currency |-> transfer.symbol],
                         feeCell(applyFee, fee, cfg), cfg.exchange,
                         <<IF isBurn THEN "Token burn" ELSE "Token out", transfer.txHash>>,
                         transfer.dateTime)>>,
      fees |-> claimFee(applyFee, transfer.txHash, processedFeeHashes)]

\* createNativeTradeRow that reports the token only.
createNativeTradeRowTokenOnly(incoming, nativeTx, fee, cfg, processedFeeHashes) ==
  createDepositRow(incoming, fee, cfg, processedFeeHashes)

createNativeTradeRow(incoming, nativeTx, fee, cfg, processedFeeHashes) ==
  LET applyFee == applyFeeOf(fee, incoming.txHash, processedFeeHashes)
      isMint == isZeroAddress(incoming.from)
  IN [rows |-> <<makeRow("Trade",
                         [amount |-> ToString(incoming.value), currency |-> incoming.symbol],
                         [amount |-> ToString(nativeTx.valueOut), currency |-> cfg.nativeSymbol],
                         feeCell(applyFee, fee, cfg), cfg.exchange,
                         <<IF isMint THEN "NFT mint (trade)" ELSE "NFT purchase (trade)",
                           incoming.txHash>>,
                         incoming.dateTime)>>,
      fees |-> claimFee(applyFee, incoming.txHash, processedFeeHashes)]

\* A fee lookup that charges 1 when the index has no record.
nativeFeeDefaultOne(nativeTx) == IF nativeTx = <<>> THEN 1 ELSE nativeTx[1].fee

\* `nativeTx` is a sequence of zero or one records: nativeByHash.get(txHash).
nativeFee(nativeTx) == IF nativeTx = <<>> THEN 0 ELSE nativeTx[1].fee

mapGet(nativeByHash, txHash) ==
  IF txHash \in DOMAIN nativeByHash THEN <<nativeByHash[txHash]>> ELSE <<>>

RECURSIVE incomingRows(_, _, _, _, _)
incomingRows(transfers, nativeTx, fee, cfg, processedFeeHashes) ==
  IF transfers = <<>>
  THEN [rows |-> <<>>, fees |-> processedFeeHashes]
  ELSE LET r == IF nativeTx # <<>> /\ nativeTx[1].valueOut > 0
                THEN createNativeTradeRow(Head(transfers), nativeTx[1], fee, cfg,
                                          processedFeeHashes)
                ELSE createDepositRow(Head(transfers), fee, cfg, processedFeeHashes)
           rest == incomingRows(Tail(transfers), nativeTx, fee, cfg, r.fees)
       IN [rows |-> r.rows \o rest.rows, fees |-> rest.fees]

RECURSIVE outgoingRows(_, _, _, _)
outgoingRows(transfers, fee, cfg, processedFeeHashes) ==
  IF transfers = <<>>
  THEN [rows |-> <<>>, fees |-> processedFeeHashes]
  ELSE LET r == createWithdrawalRow(Head(transfers), fee, cfg, processedFeeHashes)
           rest == outgoingRows(Tail(transfers), fee, cfg, r.fees)
       IN [rows |-> r.rows \o rest.rows, fees |-> rest.fees]

\* processTransferGroup that pairs the first outgoing with the first incoming
\* leg of a multi-leg swap.
processTransferGroupFirstIncoming(classified, nativeTx, cfg, processedFeeHashes) ==
  LET fee == nativeFee(nativeTx)
  IN IF classified.outgoing # <<>> /\ classified.incoming # <<>>
     THEN createSwapRow(classified.outgoing[1], classified.incoming[1], fee, cfg,
                        processedFeeHashes)
     ELSE LET ins == incomingRows(classified.incoming, nativeTx, fee, cfg,
                                  processedFeeHashes)
              outs == outgoingRows(classified.outgoing, fee, cfg, ins.fees)
          IN [rows |-> ins.rows \o outs.rows, fees |-> outs.fees]

processTransferGroup(classified, nativeTx, cfg, processedFeeHashes) ==
  LET fee == nativeFee(nativeTx)
  IN IF isSimpleSwap(classified)
     THEN createSwapRow(classified.outgoing[1], classified.incoming[1], fee, cfg,
                        processedFeeHashes)
     ELSE IF classified.outgoing # <<>> /\ classified.incoming # <<>>
     THEN createSwapRow(classified.outgoing[1],
                        classified.incoming[Len(classified.incoming)], fee, cfg,
                        processedFeeHashes)
     ELSE LET ins == incomingRows(classified.incoming, nativeTx, fee, cfg,
                                  processedFeeHashes)
              outs == outgoingRows(classified.outgoing, fee, cfg, ins.fees)
          IN [rows |-> ins.rows \o outs.rows, fees |-> outs.fees]

RECURSIVE tokenGroups(_, _, _, _, _)
tokenGroups(keys, legs, cfg, nativeByHash, processedFeeHashes) ==
  IF keys = <<>>
  THEN [rows |-> <<>>, fees |-> processedFeeHashes, processedHashes |-> {}]
  ELSE LET txHash == Head(keys)
           classified == classifyTransfers(legs[txHash], cfg.address)
           r == processTransferGroup(classified, mapGet(nativeByHash, txHash), cfg,
                                     processedFeeHashes)
           rest == tokenGroups(Tail(keys), legs, cfg, nativeByHash, r.fees)
       IN [rows |-> r.rows \o rest.rows, fees |-> rest.fees,
           processedHashes |-> {txHash} \cup rest.processedHashes]

transformTokenRows(rows, cfg, nativeByHash, processedFeeHashes) ==
  LET grouped == groupByTxHash(parseTokenRows(rows))
  IN tokenGroups(grouped.keys, grouped.legs, cfg, nativeByHash, processedFeeHashes)

\* ---------------------------------------------------------- internal.ts
parseInternalRow(row) ==
  [txHash |-> toTxHash(row.txHash), dateTime |-> row.dateTime,
   from |-> toAddress(row.from), to |-> toAddress(row.to),
   valueIn |-> normalizeNumber(row.valueIn),
   valueOut |-> normalizeNumber(row.valueOut)]

parseInternalRows(rows) ==
  SelectSeq([i \in 1..Len(rows) |-> parseInternalRow(rows[i])],
            LAMBDA tx : tx.txHash # "")

\* isDuplicate that finds nothing covered.
isDuplicateNever(internalTx, nativeByHash, cfg) == FALSE

isDuplicate(internalTx, nativeByHash, cfg) ==
  LET nativeTx == mapGet(nativeByHash, internalTx.txHash)
      isIncoming == internalTx.to = cfg.address
      isOutgoing == internalTx.from = cfg.address
  IN IF nativeTx = <<>> THEN FALSE
     ELSE IF isIncoming /\ nativeTx[1].valueIn > 0
             /\ nativeTx[1].valueIn = internalTx.valueIn THEN TRUE
     ELSE IF isOutgoing /\ nativeTx[1].valueOut > 0
             /\ nativeTx[1].valueOut = internalTx.valueOut THEN TRUE
     ELSE FALSE

\* transformInternalTx: the ledger is claimed before the direction is tested.
transformInternalTx(tx, cfg, processedFeeHashes, nativeByHash) ==
  IF tx.valueIn = 0 /\ tx.valueOut = 0
  THEN [rows |-> <<>>, fees |-> processedFeeHashes]
  ELSE IF isDuplicate(tx, nativeByHash, cfg)
  THEN [rows |-> <<>>, fees |-> processedFeeHashes]
  ELSE
    LET fee == nativeFee(mapGet(nativeByHash, tx.txHash))
        applyFee == applyFeeOf(fee, tx.txHash, processedFeeHashes)
        fees == claimFee(applyFee, tx.txHash, processedFeeHashes)
    IN IF tx.valueIn > 0 /\ tx.to = cfg.address /\ tx.from # cfg.address
       THEN [rows |-> <<makeDeposit(ToString(tx.valueIn), cfg.nativeSymbol,
                                    feeCell(applyFee, fee, cfg), cfg.exchange,
                                    <<"Internal in", tx.txHash>>, tx.dateTime)>>,
             fees |-> fees]
       ELSE IF tx.valueOut > 0 /\ tx.from = cfg.address
       THEN [rows |-> <<makeWithdrawal(ToString(tx.valueOut), cfg.nativeSymbol,
                                       feeCell(applyFee, fee, cfg), cfg.exchange,
                                       <<"Internal out", tx.txHash>>, tx.dateTime)>>,
             fees |-> fees]
       ELSE [rows |-> <<>>, fees |-> fees]

RECURSIVE mapInternal(_, _, _, _)
mapInternal(txs, cfg, nativeByHash, processedFeeHashes) ==
  IF txs = <<>>
  THEN [rows |-> <<>>, fees |-> processedFeeHashes]
  ELSE LET r == transformInternalTx(Head(txs), cfg, processedFeeHashes, nativeByHash)
           rest == mapInternal(Tail(txs), cfg, nativeByHash, r.fees)
       IN [rows |-> r.rows \o rest.rows, fees |-> rest.fees]

transformInternalRows(rows, cfg, nativeByHash, processedFeeHashes) ==
  mapInternal(parseInternalRows(rows), cfg, nativeByHash, processedFeeHashes)

\* --------------------------------------------------------------- nft.ts
parseNftRow(row, isErc1155) ==
  [txHash |-> toTxHash(row.txHash), dateTime |-> row.dateTime,
   from |-> toAddress(row.from), to |-> toAddress(row.to),
   tokenId |-> row.tokenId,
   tokenSymbol |-> IF row.tokenSymbol # "" THEN row.tokenSymbol ELSE "NFT",
   quantity |-> IF isErc1155 THEN normalizeNumber(row.tokenValue) ELSE 1]

parseNftRows(rows, isErc1155) ==
  SelectSeq([i \in 1..Len(rows) |-> parseNftRow(rows[i], isErc1155)],
            LAMBDA tx : tx.txHash # "")

\* `NFT:${symbol}#${tokenId}`
formatNftCurrency(transfer) ==
  <<"NFT:", IF transfer.tokenSymbol # "" THEN transfer.tokenSymbol ELSE "NFT",
    "#", transfer.tokenId>>

\* transformNftTransfer that never looks for a native payment.
transformNftTransferNoPayment(transfer, cfg, processedFeeHashes, nativeByHash) ==
  LET nativeTx == mapGet(nativeByHash, transfer.txHash)
      fee == nativeFee(nativeTx)
      applyFee == applyFeeOf(fee, transfer.txHash, processedFeeHashes)
      fees == claimFee(applyFee, transfer.txHash, processedFeeHashes)
      feeC == feeCell(applyFee, fee, cfg)
      nftCurrency == formatNftCurrency(transfer)
      quantity == ToString(transfer.quantity)
      isMint == isZeroAddress(transfer.from)
      isBurn == isZeroAddress(transfer.to)
  IN IF transfer.to = cfg.address /\ transfer.from # cfg.address
     THEN [rows |-> <<makeRow(IF isMint THEN "Airdrop" ELSE "Deposit",
                              [amount |-> quantity, currency |-> nftCurrency],
                              Empty, feeC, cfg.exchange,
                              <<IF isMint THEN "NFT mint" ELSE "NFT in", transfer.txHash>>,
                              transfer.dateTime)>>,
           fees |-> fees]
     ELSE IF transfer.from = cfg.address /\ transfer.to # cfg.address
     THEN [rows |-> <<makeRow(IF isBurn THEN "Lost" ELSE "Withdrawal", Empty,
                              [amount |-> quantity, currency |-> nftCurrency],
                              feeC, cfg.exchange,
                              <<IF isBurn THEN "NFT burn" ELSE "NFT out", transfer.txHash>>,
                              transfer.dateTime)>>,
           fees |-> fees]
     ELSE [rows |-> <<>>, fees |-> fees]

\* transformNftTransfer: the ledger is claimed before the direction is tested.
transformNftTransfer(transfer, cfg, processedFeeHashes, nativeByHash) ==
  LET nativeTx == mapGet(nativeByHash, transfer.txHash)
      fee == nativeFee(nativeTx)
      applyFee == applyFeeOf(fee, transfer.txHash, processedFeeHashes)
      fees == claimFee(applyFee, transfer.txHash, processedFeeHashes)
      feeC == feeCell(applyFee, fee, cfg)
      nftCurrency == formatNftCurrency(transfer)
      quantity == ToString(transfer.quantity)
      isMint == isZeroAddress(transfer.from)
      isBurn == isZeroAddress(transfer.to)
  IN IF transfer.to = cfg.address /\ transfer.from # cfg.address
     THEN IF nativeTx # <<>> /\ nativeTx[1].valueOut > 0
          THEN [rows |-> <<makeRow("Trade",
                                   [amount |-> quantity, currency |-> nftCurrency],
                                   [amount |-> ToString(nativeTx[1].valueOut),
                                    currency |-> cfg.nativeSymbol],
                                   feeC, cfg.exchange,
                                   <<IF isMint THEN "NFT mint (trade)"
                                     ELSE "NFT purchase (trade)", transfer.txHash>>,
                                   transfer.dateTime)>>,
                fees |-> fees]
          ELSE [rows |-> <<makeRow(IF isMint THEN "Airdrop" ELSE "Deposit",
                                   [amount |-> quantity, currency |-> nftCurrency],
                                   Empty, feeC, cfg.exchange,
                                   <<IF isMint THEN "NFT mint" ELSE "NFT in",
                                     transfer.txHash>>,
                                   transfer.dateTime)>>,
                fees |-> fees]
     ELSE IF transfer.from = cfg.address /\ transfer.to # cfg.address
     THEN [rows |-> <<makeRow(IF isBurn THEN "Lost" ELSE "Withdrawal", Empty,
                              [amount |-> quantity, currency |-> nftCurrency],
                              feeC, cfg.exchange,
                              <<IF isBurn THEN "NFT burn" ELSE "NFT out",
                                transfer.txHash>>,
                              transfer.dateTime)>>,
           fees |-> fees]
     ELSE [rows |-> <<>>, fees |-> fees]

RECURSIVE mapNft(_, _, _, _)
mapNft(transfers, cfg, nativeByHash, processedFeeHashes) ==
  IF transfers = <<>>
  THEN [rows |-> <<>>, fees |-> processedFeeHashes]
  ELSE LET r == transformNftTransfer(Head(transfers), cfg, processedFeeHashes,
                                     nativeByHash)
           rest == mapNft(Tail(transfers), cfg, nativeByHash, r.fees)
       IN [rows |-> r.rows \o rest.rows, fees |-> rest.fees]

transformNftRows(rows, isErc1155, cfg, nativeByHash, processedFeeHashes) ==
  mapNft(parseNftRows(rows, isErc1155), cfg, nativeByHash, processedFeeHashes)

\* ------------------------------------------------------- symbol-overrides
\* COINTRACKING_NATIVE_SYMBOLS, the entries of the chains of the model.
COINTRACKING_NATIVE_SYMBOLS == [chain \in {"Ethereum", "Mantle"} |->
                                  IF chain = "Ethereum" THEN "ETH" ELSE "MNT3"]

\* resolveNativeSymbol: a user override for the chain when one exists, else
\* the built-in symbol of the chain, else the original.
resolveNativeSymbol(nativeSymbols, chain, originalSymbol) ==
  IF chain \in DOMAIN nativeSymbols /\ nativeSymbols[chain] # ""
  THEN nativeSymbols[chain]
  ELSE IF chain \in DOMAIN COINTRACKING_NATIVE_SYMBOLS
          /\ COINTRACKING_NATIVE_SYMBOLS[chain] # ""
  THEN COINTRACKING_NATIVE_SYMBOLS[chain]
  ELSE originalSymbol

\* resolveTokenSymbol: a user override when one exists, else the original.
resolveTokenSymbol(tokenSymbols, originalSymbol) ==
  IF originalSymbol \in DOMAIN tokenSymbols /\ tokenSymbols[originalSymbol] # ""
  THEN tokenSymbols[originalSymbol]
  ELSE originalSymbol

\* ------------------------------------------------------------- assembly
\* dayjs(row.Date).valueOf() on the timestamps of the model.
dayjsValueOf(date) ==
  CASE date = "2024-01-01 10:00:00" -> 1
    [] date = "2024-01-02 10:00:00" -> 2
    [] OTHER -> 0

\* Array.prototype.sort with the comparator a.Date - b.Date; the sort is
\* stable, so rows of equal date keep their relative order.
RECURSIVE insertByDate(_, _)
insertByDate(row, sorted) ==
  IF sorted = <<>> THEN <<row>>
  ELSE IF dayjsValueOf(row.Date) < dayjsValueOf(Head(sorted).Date)
  THEN <<row>> \o sorted
  ELSE <<Head(sorted)>> \o insertByDate(row, Tail(sorted))

\* A sort that leaves the rows where they are.
sortByDateNoOp(rows) == rows

RECURSIVE sortByDate(_)
sortByDate(rows) ==
  IF rows = <<>> THEN <<>>
  ELSE insertByDate(rows[Len(rows)], sortByDate(SubSeq(rows, 1, Len(rows) - 1)))

normalizeSymbols(tokenSymbols, rows) ==
  [i \in 1..Len(rows) |->
     [rows[i] EXCEPT !.BuyCurrency = resolveTokenSymbol(tokenSymbols, @),
                     !.SellCurrency = resolveTokenSymbol(tokenSymbols, @),
                     !.FeeCurrency = resolveTokenSymbol(tokenSymbols, @)]]

\* --------------------------------------------------------- local-config
\* Array.prototype.findIndex with 1-based positions, given the positions
\* whose element satisfies the predicate: the first of them, 0 when there
\* is none.
findIndex(hits) ==
  IF hits = {} THEN 0 ELSE CHOOSE i \in hits : \A j \in hits : i <= j

\* A saveAddress that stores the address as it was typed.
saveAddressAsTyped(addresses, addressEntry) ==
  LET existingIndex ==
        findIndex({i \in 1..Len(addresses) : addresses[i].address = addressEntry.address})
  IN IF existingIndex >= 1
     THEN [addresses EXCEPT ![existingIndex] = addressEntry]
     ELSE Append(addresses, addressEntry)

\* saveAddress on the `addresses` list of data/addresses.json.
saveAddress(addresses, addressEntry) ==
  LET normalizedAddress == toLowerCase(addressEntry.address)
      existingIndex ==
        findIndex({i \in 1..Len(addresses) :
                     toLowerCase(addresses[i].address) = normalizedAddress})
  IN IF existingIndex >= 1
     THEN [addresses EXCEPT ![existingIndex] =
             [name |-> addressEntry.name, address |-> normalizedAddress]]
     ELSE Append(addresses, [name |-> addressEntry.name, address |-> normalizedAddress])

\* removeAddress: the list without the entries of that address.
removeAddress(addresses, address) ==
  LET normalizedAddress == toLowerCase(address)
  IN SelectSeq(addresses, LAMBDA a : toLowerCase(a.address) # normalizedAddress)

\* --------------------------------------------------------------- history
\* An addImportRecord that always appends.
addImportRecordAppends(imports, record) == Append(imports, record)

\* addImportRecord on the `imports` list of data/history.json.
addImportRecord(imports, record) ==
  LET existingIndex == findIndex({i \in 1..Len(imports) : imports[i].id = record.id})
  IN IF existingIndex # 0
     THEN [imports EXCEPT ![existingIndex] = record]
     ELSE Append(imports, record)

\* ---------------------------------------------------------- file choice
CsvTypes == {"native", "tokens", "internal", "nft721", "nft1155"}

\* categorizeFiles / groupFilesByType: the paths of each type, in the order
\* given.  A path is the position of the file in the list handed over.
categorizeFiles(detected) ==
  [type \in CsvTypes \cup {"unknown"} |->
     SelectSeq([i \in 1..Len(detected) |-> i], LAMBDA i : detected[i].type = type)]

\* `paths[0]`: undefined on an empty list.
firstOf(paths) == IF paths = <<>> THEN <<>> ELSE <<paths[1]>>

\* The one file per type that convertCommand goes on to read.
chosenFiles(detected) ==
  [type \in CsvTypes |-> firstOf(categorizeFiles(detected)[type])]

\* `file ? readCsv(file) : []`
readCsv(detected, file) == IF file = <<>> THEN <<>> ELSE detected[file[1]].rows

getOutputFile(importId) == "data/output/" \o importId \o ".csv"

\* saveImport: a new folder under data/imports holding a copy of every input
\* file under the name of its type, a copy of the output and a manifest.
saveImport(imports, inputFiles, outputPath, outputRowCount) ==
  Append(imports,
         [input |-> {inputFiles[i].type : i \in 1..Len(inputFiles)} \ {"unknown"},
          output |-> outputPath,
          manifest |-> [files |-> Len(inputFiles), outputRowCount |-> outputRowCount]])

\* ---------------------------------------------------------------- state
VARIABLES
  entry,              \* "convert" (convertCommand) or "auto" (autoConvert)
  cutoff,             \* config.cutoff: <<>> when undefined, else <<its date>>
  pc,                 \* the next statement of the orchestrator
  nativeRows, tokenRows, internalRows, nft721Rows, nft1155Rows,  \* readCsv results
  tokenSymbols,       \* data/symbol-overrides.json, tokenSymbols
  nativeByHash,       \* the Native Index
  processedFeeHashes, \* the Fee Ledger
  tokenResult, nativeResult, internalResult, nft721Result, nft1155Result,
  allRows,
  trace,              \* history: the transformer calls made so far, in order
  files,              \* the CSV files handed to convertCommand, with their rows
  opts,               \* ConvertOptions and the answers given at the prompts
  disk,               \* the output file, data/imports, history.json, addresses.json
  symbolQuery,        \* a symbol lookup: the overrides file, the question, the answer
  par                 \* per-record positions of transformers that share the ledger

vars == <<entry, cutoff, pc, nativeRows, tokenRows, internalRows, nft721Rows, nft1155Rows,
          tokenSymbols, nativeByHash, processedFeeHashes, tokenResult, nativeResult,
          internalResult, nft721Result, nft1155Result, allRows, trace,
          files, opts, disk, symbolQuery, par>>

\* What the transformer stages read and never write.
surroundings == <<files, opts, disk, symbolQuery, par>>

csvRows == <<nativeRows, tokenRows, internalRows, nft721Rows, nft1155Rows>>

inputs == <<entry, cutoff, csvRows, tokenSymbols, surroundings>>

\* ------------------------------------------------------- input alphabets
\* One block timestamp per transaction; 0xa is the later one, so that the
\* final sort has something to do.
dateOf(rawHash) ==
  IF toTxHash(rawHash) = "0xa" THEN "2024-01-02 10:00:00" ELSE "2024-01-01 10:00:00"

nativeCsv(hashes, addrs, cells, fees, methods) ==
  {[txHash |-> h, dateTime |-> dateOf(h), from |-> f, to |-> t,
    valueIn |-> vi, valueOut |-> vo, fee |-> fe, method |-> m] :
     h \in hashes, f \in addrs, t \in addrs, vi \in cells, vo \in cells,
     fe \in fees, m \in methods}

tokenCsv(hashes, pairs, cells, symbols) ==
  {[txHash |-> h, dateTime |-> dateOf(h), from |-> p[1], to |-> p[2],
    tokenValue |-> v, tokenSymbol |-> sy] :
     h \in hashes, p \in pairs, v \in cells, sy \in symbols}

internalCsv(hashes, pairs, cells) ==
  {[txHash |-> h, dateTime |-> dateOf(h), from |-> p[1], to |-> p[2],
    valueIn |-> vi, valueOut |-> vo] :
     h \in hashes, p \in pairs, vi \in cells, vo \in cells}

nftCsv(hashes, pairs, cells) ==
  {[txHash |-> h, dateTime |-> dateOf(h), from |-> p[1], to |-> p[2],
    tokenId |-> "7", tokenSymbol |-> "APE", tokenValue |-> v] :
     h \in hashes, p \in pairs, v \in cells}

seqsOf(n, S) == [1..n -> S]

\* A conversion whose rows are already read: no file list, no options, no
\* data directory, no symbol lookup and no concurrent transformers.
plainRun ==
  /\ files = <<>>
  /\ opts = <<>>
  /\ disk = <<>>
  /\ symbolQuery = <<>>
  /\ par = <<>>

initialRun ==
  /\ pc = "index"
  /\ nativeByHash = <<>>
  /\ processedFeeHashes = {}
  /\ tokenResult = [rows |-> <<>>, processedHashes |-> {}]
  /\ nativeResult = <<>>
  /\ internalResult = <<>>
  /\ nft721Result = <<>>
  /\ nft1155Result = <<>>
  /\ allRows = <<>>
  /\ trace = <<>>

\* ------------------------------------------------------------ the run
\* The statement that follows `stage` in the orchestrator `e`: convertCommand
\* calls the five transformers in turn, autoConvert the first three and then
\* its symbol loop.
nextPcSwapped(e, stage) ==
  CASE stage = "index" -> "native"
    [] stage = "native" -> "token"
    [] stage = "token" -> "internal"
    [] stage = "internal" -> IF e = "convert" THEN "nft721" ELSE "normalize"
    [] stage = "nft721" -> "nft1155"
    [] stage = "nft1155" -> "sort"
    [] stage = "normalize" -> "sort"
    [] OTHER -> "done"

nextPc(e, stage) ==
  CASE stage = "index" -> "token"
    [] stage = "token" -> "native"
    [] stage = "native" -> "internal"
    [] stage = "internal" -> IF e = "convert" THEN "nft721" ELSE "normalize"
    [] stage = "nft721" -> "nft1155"
    [] stage = "nft1155" -> "sort"
    [] stage = "normalize" -> "sort"
    [] OTHER -> "done"

\* parseNativeRows + indexNativeByHash, then the empty Fee Ledger.
BuildIndex ==
  /\ pc = "index"
  /\ nativeByHash' = indexNativeByHash(parseNativeRows(nativeRows))
  /\ processedFeeHashes' = {}
  /\ allRows' = <<>>
  /\ pc' = nextPc(entry, "index")
  /\ UNCHANGED <<inputs, tokenResult, nativeResult, internalResult, nft721Result,
                 nft1155Result, trace>>

TokenStage ==
  /\ pc = "token"
  /\ LET r == transformTokenRows(tokenRows, config, nativeByHash, processedFeeHashes)
     IN /\ tokenResult' = [rows |-> r.rows, processedHashes |-> r.processedHashes]
        /\ processedFeeHashes' = r.fees
        /\ allRows' = allRows \o r.rows
  /\ trace' = Append(trace, "token")
  /\ pc' = nextPc(entry, "token")
  /\ UNCHANGED <<inputs, nativeByHash, nativeResult, internalResult, nft721Result,
                 nft1155Result>>

NativeStage ==
  /\ pc = "native"
  /\ LET r == transformNativeRows(nativeRows, config, processedFeeHashes,
                                  tokenResult.processedHashes)
     IN /\ nativeResult' = r.rows
        /\ processedFeeHashes' = r.fees
        /\ allRows' = allRows \o r.rows
  /\ trace' = Append(trace, "native")
  /\ pc' = nextPc(entry, "native")
  /\ UNCHANGED <<inputs, nativeByHash, tokenResult, internalResult, nft721Result,
                 nft1155Result>>

\* An Internal stage that removes from the index the records it has looked up.
InternalStageConsumesIndex ==
  /\ pc = "internal"
  /\ LET r == transformInternalRows(internalRows, config, nativeByHash,
                                    processedFeeHashes)
         txs == parseInternalRows(internalRows)
         used == {txs[i].txHash : i \in 1..Len(txs)}
     IN /\ internalResult' = r.rows
        /\ processedFeeHashes' = r.fees
        /\ allRows' = allRows \o r.rows
        /\ nativeByHash' = [h \in DOMAIN nativeByHash \ used |-> nativeByHash[h]]
  /\ trace' = Append(trace, "internal")
  /\ pc' = nextPc(entry, "internal")
  /\ UNCHANGED <<inputs, tokenResult, nativeResult, nft721Result, nft1155Result>>

InternalStage ==
  /\ pc = "internal"
  /\ LET r == transformInternalRows(internalRows, config, nativeByHash,
                                    processedFeeHashes)
     IN /\ internalResult' = r.rows
        /\ processedFeeHashes' = r.fees
        /\ allRows' = allRows \o r.rows
  /\ trace' = Append(trace, "internal")
  /\ pc' = nextPc(entry, "internal")
  /\ UNCHANGED <<inputs, nativeByHash, tokenResult, nativeResult, nft721Result,
                 nft1155Result>>

Nft721Stage ==
  /\ pc = "nft721"
  /\ LET r == transformNftRows(nft721Rows, FALSE, config, nativeByHash,
                               processedFeeHashes)
     IN /\ nft721Result' = r.rows
        /\ processedFeeHashes' = r.fees
        /\ allRows' = allRows \o r.rows
  /\ trace' = Append(trace, "nft721")
  /\ pc' = nextPc(entry, "nft721")
  /\ UNCHANGED <<inputs, nativeByHash, tokenResult, nativeResult, internalResult,
                 nft1155Result>>

Nft1155Stage ==
  /\ pc = "nft1155"
  /\ LET r == transformNftRows(nft1155Rows, TRUE, config, nativeByHash,
                               processedFeeHashes)
     IN /\ nft1155Result' = r.rows
        /\ processedFeeHashes' = r.fees
        /\ allRows' = allRows \o r.rows
  /\ trace' = Append(trace, "nft1155")
  /\ pc' = nextPc(entry, "nft1155")
  /\ UNCHANGED <<inputs, nativeByHash, tokenResult, nativeResult, internalResult,
                 nft721Result>>

\* autoConvert only: the loop rewrites the row objects in place, and the
\* stage results hold the same objects.
NormalizeSymbols ==
  /\ pc = "normalize"
  /\ allRows' = normalizeSymbols(tokenSymbols, allRows)
  /\ tokenResult' = [tokenResult EXCEPT !.rows = normalizeSymbols(tokenSymbols, @)]
  /\ nativeResult' = normalizeSymbols(tokenSymbols, nativeResult)
  /\ internalResult' = normalizeSymbols(tokenSymbols, internalResult)
  /\ pc' = nextPc(entry, "normalize")
  /\ UNCHANGED <<inputs, nativeByHash, processedFeeHashes, nft721Result,
                 nft1155Result, trace>>

SortRows ==
  /\ pc = "sort"
  /\ allRows' = sortByDate(allRows)
  /\ pc' = nextPc(entry, "sort")
  /\ UNCHANGED <<inputs, nativeByHash, processedFeeHashes, tokenResult, nativeResult,
                 internalResult, nft721Result, nft1155Result, trace>>

Next ==
  \/ BuildIndex
  \/ TokenStage
  \/ NativeStage
  \/ InternalStage
  \/ Nft721Stage
  \/ Nft1155Stage
  \/ NormalizeSymbols
  \/ SortRows

\* Inputs of a whole run: at most MaxRecords CSV rows over the five files.
\* The native export holds two transactions, 0xa and 0xb; the other exports
\* refer to 0xa, and the token export writes it in upper case.  A native row
\* that moves no value is a call made by the wallet itself, and one with a
\* Value_IN is addressed to the wallet.
ValueCells == {<<"0", "0">>, <<"1", "0">>, <<"0", "1">>}

RunNative ==
  {r \in nativeCsv({"0xa", "0xb"}, {User, Other}, {"0", "1"}, {"0", "1"}, {""}) :
     /\ r.from # r.to
     /\ <<r.valueIn, r.valueOut>> \in ValueCells
     /\ (<<r.valueIn, r.valueOut>> = <<"0", "0">> => r.from = User)
     /\ (r.valueIn = "1" => r.to = User)}

RunToken ==
  tokenCsv({"0xA"}, {<<User, Other>>, <<Other, User>>, <<Other, Other>>},
           {"1"}, {"WETH"})

RunInternal ==
  {r \in internalCsv({"0xa"}, {<<User, Other>>, <<Other, User>>}, {"0", "1"}) :
     <<r.valueIn, r.valueOut>> \in ValueCells \ {<<"0", "0">>}}

RunNft ==
  nftCsv({"0xa"}, {<<User, Other>>, <<Other, User>>, <<Other, Other>>}, {"1"})

\* autoConvert converts the three files the fetcher wrote and applies the
\* user's token-symbol overrides; convertCommand reads no overrides.
Init ==
  /\ initialRun
  /\ plainRun
  /\ entry \in {"convert", "auto"}
  /\ tokenSymbols = IF entry = "auto" THEN [x \in {"WETH"} |-> "WETH2"] ELSE <<>>
  /\ cutoff = <<>>
  /\ \E n1 \in 0..MaxRecords :
     \E n2 \in 0..(MaxRecords - n1) :
     \E n3 \in 0..(MaxRecords - n1 - n2) :
     \E n4 \in 0..(MaxRecords - n1 - n2 - n3) :
     \E n5 \in 0..(MaxRecords - n1 - n2 - n3 - n4) :
       /\ (entry = "auto" => n4 = 0 /\ n5 = 0)
       /\ nativeRows \in seqsOf(n1, RunNative)
       /\ tokenRows \in seqsOf(n2, RunToken)
       /\ internalRows \in seqsOf(n3, RunInternal)
       /\ nft721Rows \in seqsOf(n4, RunNft)
       /\ nft1155Rows \in seqsOf(n5, RunNft)

Spec == Init /\ [][Next]_vars

\* ------------------------------------------- the Token transformer alone
\* convertCommand up to the call of transformTokenRows, on a token export of
\* at most MaxLegs rows over two transactions (0xA, written in upper case,
\* and 0xb) and a native export that holds 0xa or nothing.  A leg moves
\* 1 USDC or 2 WETH between the wallet, another account and the zero address;
\* the mints, the burns and the legs between other accounts are legs of 0xA.
MaxLegs == 3

TokenRunLegs ==
  {r \in tokenCsv({"0xA", "0xb"},
                  {<<User, Other>>, <<Other, User>>, <<ZERO_ADDRESS, User>>,
                   <<User, ZERO_ADDRESS>>, <<Other, Other>>},
                  {"1", "2"}, {"USDC", "WETH"}) :
     /\ (r.tokenValue = "1") <=> (r.tokenSymbol = "USDC")
     /\ (r.txHash = "0xb" => ZERO_ADDRESS \notin {r.from, r.to} /\ User \in {r.from, r.to})
     /\ (r.from = Other /\ r.to = Other => r.tokenValue = "1")}

TokenRunNative ==
  {r \in nativeCsv({"0xa"}, {User, Other}, {"0", "1"}, {"1"}, {""}) :
     r.from = User /\ r.to = Other /\ r.valueIn = "0"}

InitToken ==
  /\ initialRun
  /\ plainRun
  /\ entry = "convert"
  /\ tokenSymbols = <<>>
  /\ cutoff = <<>>
  /\ nativeRows \in seqsOf(0, TokenRunNative) \cup seqsOf(1, TokenRunNative)
  /\ \E n \in 0..MaxLegs : tokenRows \in seqsOf(n, TokenRunLegs)
  /\ internalRows = <<>>
  /\ nft721Rows = <<>>
  /\ nft1155Rows = <<>>

NextToken ==
  \/ BuildIndex
  \/ TokenStage

SpecToken == InitToken /\ [][NextToken]_vars

\* ---------------------------------------- the Internal transformer alone
\* convertCommand up to the call of transformInternalRows, on an internal
\* export of at most MaxInternal rows over the transactions 0xa and 0xb, and
\* a native export that holds 0xa or nothing.  The value cells range over
\* 0, 1 and 2, and an internal row may be a transfer of the wallet to itself.
MaxInternal == 1

InternalRunRows ==
  internalCsv({"0xa", "0xb"},
              {<<User, Other>>, <<Other, User>>, <<User, User>>, <<Other, Other>>},
              {"0", "1", "2"})

InternalRunNative ==
  {r \in nativeCsv({"0xa"}, {User, Other}, {"0", "1", "2"}, {"1"}, {""}) :
     r.from # r.to}

InitInternal ==
  /\ initialRun
  /\ plainRun
  /\ entry = "convert"
  /\ tokenSymbols = <<>>
  /\ cutoff = <<>>
  /\ nativeRows \in seqsOf(0, InternalRunNative) \cup seqsOf(1, InternalRunNative)
  /\ tokenRows = <<>>
  /\ \E n \in 0..MaxInternal : internalRows \in seqsOf(n, InternalRunRows)
  /\ nft721Rows = <<>>
  /\ nft1155Rows = <<>>

NextInternal ==
  \/ BuildIndex
  \/ TokenStage
  \/ NativeStage
  \/ InternalStage

SpecInternal == InitInternal /\ [][NextInternal]_vars

\* ------------------------------------------ the Native transformer alone
\* convertCommand up to the call of transformNativeRows, on a native export
\* of at most MaxNative rows and no token export.  The rows of 0xa range over
\* every pair of sender and recipient and every combination of the three
\* amounts; 0xb is a transaction sent by the wallet, and a row may lack its
\* hash.
MaxNative == 2

NativeRunRows ==
  {r \in nativeCsv({"0xa", "0xb", ""}, {User, Other}, {"0", "1"}, {"0", "1"}, {""}) :
     /\ (r.txHash = "0xb" => r.from = User /\ r.to = Other)
     /\ (r.txHash = "" => r.from = Other /\ r.to = User /\ r.valueOut = "0" /\ r.fee = "1")}

InitNative ==
  /\ initialRun
  /\ plainRun
  /\ entry = "convert"
  /\ tokenSymbols = <<>>
  /\ cutoff = <<>>
  /\ \E n \in 0..MaxNative : nativeRows \in seqsOf(n, NativeRunRows)
  /\ tokenRows = <<>>
  /\ internalRows = <<>>
  /\ nft721Rows = <<>>
  /\ nft1155Rows = <<>>

NextNative ==
  \/ BuildIndex
  \/ TokenStage
  \/ NativeStage

SpecNative == InitNative /\ [][NextNative]_vars

\* --------------------------------------------- the NFT transformers alone
\* convertCommand up to the second call of transformNftRows, on at most
\* MaxNft rows over the token, ERC-721 and ERC-1155 exports and a native
\* export that holds 0xa or nothing.  An NFT row is a transfer of APE #7 or
\* of the unnamed token #8; an ERC-1155 row has a quantity cell of 0, 1 or 2;
\* a row may lack its hash.
MaxNft == 1

NftRunRows(cells) ==
  {[r EXCEPT !.tokenSymbol = n[1], !.tokenId = n[2]] :
     r \in {x \in nftCsv({"0xa", "0xb", ""},
                         {<<User, Other>>, <<Other, User>>, <<ZERO_ADDRESS, User>>,
                          <<User, ZERO_ADDRESS>>, <<Other, Other>>, <<User, User>>},
                         cells) :
              /\ (x.txHash = "0xb" => ZERO_ADDRESS \notin {x.from, x.to} /\ x.from # x.to)
              /\ (x.txHash = "" => x.from = Other /\ x.to = User)},
     n \in {<<"APE", "7">>, <<"", "8">>}}

NftRunToken ==
  {r \in tokenCsv({"0xa", ""}, {<<Other, User>>}, {"0", "1"}, {"USDC"}) :
     r.txHash = "" => r.tokenValue = "1"}

NftRunNative ==
  {r \in nativeCsv({"0xa"}, {User, Other}, {"0", "1"}, {"1"}, {""}) :
     r.from = User /\ r.to = Other /\ r.valueIn = "0"}

InitNft ==
  /\ initialRun
  /\ plainRun
  /\ entry = "convert"
  /\ tokenSymbols = <<>>
  /\ cutoff = <<>>
  /\ nativeRows \in seqsOf(0, NftRunNative) \cup seqsOf(1, NftRunNative)
  /\ internalRows = <<>>
  /\ \E n1 \in 0..MaxNft :
     \E n2 \in 0..(MaxNft - n1) :
     \E n3 \in 0..(MaxNft - n1 - n2) :
       /\ tokenRows \in seqsOf(n1, NftRunToken)
       /\ nft721Rows \in seqsOf(n2, NftRunRows({"1"}))
       /\ nft1155Rows \in seqsOf(n3, NftRunRows({"0", "1", "2"}))

NextNft ==
  \/ BuildIndex
  \/ TokenStage
  \/ NativeStage
  \/ InternalStage
  \/ Nft721Stage
  \/ Nft1155Stage

SpecNft == InitNft /\ [][NextNft]_vars

\* ------------------------------------------------- a run with a cutoff
\* convertCommand called with or without --cutoff, on a native export of at
\* most MaxCutoffRows deposits: 0xb is dated 2024-01-01 and 0xa 2024-01-02.
MaxCutoffRows == 2

CutoffDate == "2024-01-02 10:00:00"

CutoffRunNative ==
  {r \in nativeCsv({"0xa", "0xb"}, {User, Other}, {"0", "1"}, {"0", "1"}, {""}) :
     r.from = Other /\ r.to = User /\ r.valueIn = "1" /\ r.valueOut = "0"}

InitCutoff ==
  /\ initialRun
  /\ plainRun
  /\ entry = "convert"
  /\ tokenSymbols = <<>>
  /\ cutoff \in {<<>>, <<CutoffDate>>}
  /\ \E n \in 0..MaxCutoffRows : nativeRows \in seqsOf(n, CutoffRunNative)
  /\ tokenRows = <<>>
  /\ internalRows = <<>>
  /\ nft721Rows = <<>>
  /\ nft1155Rows = <<>>

NextCutoff ==
  \/ BuildIndex
  \/ TokenStage
  \/ NativeStage
  \/ InternalStage
  \/ Nft721Stage
  \/ Nft1155Stage
  \/ SortRows

SpecCutoff == InitCutoff /\ [][NextCutoff]_vars

\* ------------------------------------ transformers that share the ledger
\* The Native and the Internal transformer working through their records at
\* the same time over the one Fee Ledger, as a parallel port of the stage
\* sequence would.  A record takes the two statements of the applyFee idiom:
\* the read `processedFeeHashes.has(tx.txHash)`, and then the rest of the
\* function, `processedFeeHashes.add(tx.txHash)` and the row.  The native
\* export holds at most MaxParRows deposits of 0xa and 0xb, the internal
\* export at most MaxParRows withdrawals of the same transactions.
MaxParRows == 2

ParRunNative ==
  {r \in nativeCsv({"0xa", "0xb"}, {User, Other}, {"0", "1"}, {"0", "1"}, {""}) :
     r.from = Other /\ r.to = User /\ r.valueIn = "1" /\ r.valueOut = "0"}

ParRunInternal ==
  {r \in internalCsv({"0xa", "0xb"}, {<<User, Other>>}, {"0", "1"}) :
     r.valueIn = "0" /\ r.valueOut = "1"}

Workers == {"native", "internal"}

\* The records a transformer maps over.
parRecords(w) ==
  IF w = "native" THEN parseNativeRows(nativeRows) ELSE parseInternalRows(internalRows)

\* The per-record function of a transformer, run on the ledger it has read.
parTransform(w, tx, ledger) ==
  IF w = "native"
  THEN transformNativeTx(tx, config, ledger)
  ELSE transformInternalTx(tx, config, ledger, nativeByHash)

InitParallel ==
  /\ initialRun
  /\ entry = "convert"
  /\ tokenSymbols = <<>>
  /\ cutoff = <<>>
  /\ \E n \in 0..MaxParRows : nativeRows \in seqsOf(n, ParRunNative)
  /\ \E n \in 0..MaxParRows : internalRows \in seqsOf(n, ParRunInternal)
  /\ tokenRows = <<>>
  /\ nft721Rows = <<>>
  /\ nft1155Rows = <<>>
  /\ files = <<>>
  /\ opts = <<>>
  /\ disk = <<>>
  /\ symbolQuery = <<>>
  /\ par = [native |-> [next |-> 1, held |-> <<>>],
            internal |-> [next |-> 1, held |-> <<>>],
            raced |-> {}]

\* The index and the empty ledger are built before the transformers start.
ParStart ==
  /\ pc = "index"
  /\ nativeByHash' = indexNativeByHash(parseNativeRows(nativeRows))
  /\ processedFeeHashes' = {}
  /\ allRows' = <<>>
  /\ pc' = "parallel"
  /\ UNCHANGED <<inputs, tokenResult, nativeResult, internalResult, nft721Result,
                 nft1155Result, trace>>

\* Transformer w reads the ledger for its next record.
ParCheck(w) ==
  /\ pc = "parallel"
  /\ par[w].next <= Len(parRecords(w))
  /\ par[w].held = <<>>
  /\ par' = [par EXCEPT ![w].held = <<processedFeeHashes>>]
  /\ UNCHANGED <<entry, cutoff, csvRows, tokenSymbols, files, opts, disk, symbolQuery,
                 pc, nativeByHash, processedFeeHashes, tokenResult, nativeResult,
                 internalResult, nft721Result, nft1155Result, allRows, trace>>

\* Transformer w finishes its record with the answer it has read: it adds
\* the hash to the shared ledger and emits the row.  `raced` remembers the
\* hashes that another transformer added between the read and this step.
ParCommit(w) ==
  /\ pc = "parallel"
  /\ par[w].held # <<>>
  /\ LET tx == parRecords(w)[par[w].next]
         r == parTransform(w, tx, par[w].held[1])
         late == IF tx.txHash \in processedFeeHashes \ par[w].held[1]
                 THEN {tx.txHash} ELSE {}
     IN /\ processedFeeHashes' = processedFeeHashes \cup r.fees
        /\ allRows' = allRows \o r.rows
        /\ nativeResult' = IF w = "native" THEN nativeResult \o r.rows ELSE nativeResult
        /\ internalResult' =
             IF w = "internal" THEN internalResult \o r.rows ELSE internalResult
        /\ par' = [par EXCEPT ![w].next = @ + 1, ![w].held = <<>>,
                              !.raced = @ \cup late]
  /\ UNCHANGED <<entry, cutoff, csvRows, tokenSymbols, files, opts, disk, symbolQuery,
                 pc, nativeByHash, tokenResult, nft721Result, nft1155Result, trace>>

\* Both transformers are through: the rows are sorted as in a plain run.
ParJoin ==
  /\ pc = "parallel"
  /\ \A w \in Workers : par[w].next > Len(parRecords(w))
  /\ pc' = "sort"
  /\ UNCHANGED <<inputs, nativeByHash, processedFeeHashes, tokenResult, nativeResult,
                 internalResult, nft721Result, nft1155Result, allRows, trace>>

NextParallel ==
  \/ ParStart
  \/ \E w \in Workers : ParCheck(w)
  \/ \E w \in Workers : ParCommit(w)
  \/ ParJoin
  \/ SortRows

SpecParallel == InitParallel /\ [][NextParallel]_vars

\* ------------------------------------------------------ symbol lookups
\* Calls of resolveNativeSymbol and resolveTokenSymbol against an overrides
\* file.  The file names a custom symbol for any of the chains Ethereum,
\* Mantle (both built in) and Dymension (not built in) and for any of the
\* tokens ATOM and USDC; a call asks for one of at most MaxSymbols chains or
\* tokens.
MaxSymbols == 3

SymbolChains == <<"Mantle", "Dymension", "Ethereum", "Base">>

SymbolTokens == <<"ATOM", "USDC", "STARS", "TIA">>

\* The symbol the user types for a chain, before resolution.
typedSymbol(chain) ==
  CASE chain = "Mantle" -> "MNT"
    [] chain = "Dymension" -> "DYM"
    [] chain = "Ethereum" -> "ETH"
    [] OTHER -> "BASE"

customOf(keys) == [k \in keys |-> k \o "_CUSTOM"]

InitSymbols ==
  /\ initialRun
  /\ entry = "convert"
  /\ cutoff = <<>>
  /\ nativeRows = <<>>
  /\ tokenRows = <<>>
  /\ internalRows = <<>>
  /\ nft721Rows = <<>>
  /\ nft1155Rows = <<>>
  /\ files = <<>>
  /\ opts = <<>>
  /\ disk = <<>>
  /\ par = <<>>
  /\ \E keys \in SUBSET {"ATOM", "USDC"} : tokenSymbols = customOf(keys)
  /\ \E keys \in SUBSET {"Ethereum", "Mantle", "Dymension"} :
       symbolQuery = [nativeSymbols |-> customOf(keys), asked |-> <<>>, answer |-> ""]

ResolveNative ==
  /\ \E i \in 1..MaxSymbols :
       LET chain == SymbolChains[i]
       IN symbolQuery' =
            [symbolQuery EXCEPT
               !.asked = <<"native", chain, typedSymbol(chain)>>,
               !.answer = resolveNativeSymbol(symbolQuery.nativeSymbols, chain,
                                              typedSymbol(chain))]
  /\ UNCHANGED <<entry, cutoff, csvRows, tokenSymbols, files, opts, disk, par,
                 pc, nativeByHash, processedFeeHashes, tokenResult, nativeResult,
                 internalResult, nft721Result, nft1155Result, allRows, trace>>

ResolveToken ==
  /\ \E i \in 1..MaxSymbols :
       LET symbol == SymbolTokens[i]
       IN symbolQuery' =
            [symbolQuery EXCEPT
               !.asked = <<"token", symbol, symbol>>,
               !.answer = resolveTokenSymbol(tokenSymbols, symbol)]
  /\ UNCHANGED <<entry, cutoff, csvRows, tokenSymbols, files, opts, disk, par,
                 pc, nativeByHash, processedFeeHashes, tokenResult, nativeResult,
                 internalResult, nft721Result, nft1155Result, allRows, trace>>

NextSymbols ==
  \/ ResolveNative
  \/ ResolveToken

SpecSymbols == InitSymbols /\ [][NextSymbols]_vars

\* ------------------------------------------------- the saved addresses
\* Calls of saveAddress and removeAddress on a data directory that starts
\* without addresses.json.  The callers use the first MaxAddresses of the
\* addresses below, the wallet in two spellings among them, under two names.
\* `opts` holds the last call and the list it found.
MaxAddresses == 3

StoreAddresses == <<RawUser, User, Other, ZERO_ADDRESS>>

emptyDisk == [outputs |-> {}, imports |-> <<>>, history |-> <<>>, addresses |-> <<>>]

idleRun ==
  /\ initialRun
  /\ entry = "convert"
  /\ cutoff = <<>>
  /\ tokenSymbols = <<>>
  /\ nativeRows = <<>>
  /\ tokenRows = <<>>
  /\ internalRows = <<>>
  /\ nft721Rows = <<>>
  /\ nft1155Rows = <<>>

InitAddresses ==
  /\ idleRun
  /\ files = <<>>
  /\ symbolQuery = <<>>
  /\ par = <<>>
  /\ disk = emptyDisk
  /\ opts = [call |-> <<>>, before |-> <<>>]

SaveAddress ==
  /\ Len(disk.addresses) <= MaxAddresses
  /\ \E i \in 1..MaxAddresses : \E name \in {"Main", "Cold"} :
       LET addressEntry == [name |-> name, address |-> StoreAddresses[i]]
       IN /\ disk' = [disk EXCEPT !.addresses = saveAddress(@, addressEntry)]
          /\ opts' = [call |-> <<"saveAddress", addressEntry>>,
                      before |-> disk.addresses]
  /\ UNCHANGED <<entry, cutoff, csvRows, tokenSymbols, files, symbolQuery, par,
                 pc, nativeByHash, processedFeeHashes, tokenResult, nativeResult,
                 internalResult, nft721Result, nft1155Result, allRows, trace>>

RemoveAddress ==
  /\ \E i \in 1..MaxAddresses :
       /\ disk' = [disk EXCEPT !.addresses = removeAddress(@, StoreAddresses[i])]
       /\ opts' = [call |-> <<"removeAddress", StoreAddresses[i]>>,
                   before |-> disk.addresses]
  /\ UNCHANGED <<entry, cutoff, csvRows, tokenSymbols, files, symbolQuery, par,
                 pc, nativeByHash, processedFeeHashes, tokenResult, nativeResult,
                 internalResult, nft721Result, nft1155Result, allRows, trace>>

NextAddresses ==
  \/ SaveAddress
  \/ RemoveAddress

SpecAddresses == InitAddresses /\ [][NextAddresses]_vars

\* --------------------------------------------------- the import history
\* Calls of addImportRecord on a data directory that starts without
\* history.json.  A record has one of the first MaxImports import ids and a
\* row count of 1 or 2; the other fields of an ImportRecord do not take part.
\* `opts` holds the last call and the list it found.
MaxImports == 3

ImportIds == <<"mantle-1", "mantle-2", "base-1", "base-2">>

InitHistory ==
  /\ idleRun
  /\ files = <<>>
  /\ symbolQuery = <<>>
  /\ par = <<>>
  /\ disk = emptyDisk
  /\ opts = [call |-> <<>>, before |-> <<>>]

AddImportRecord ==
  /\ Len(disk.history) <= MaxImports
  /\ \E i \in 1..MaxImports : \E rowCount \in {1, 2} :
       LET record == [id |-> ImportIds[i], rowCount |-> rowCount,
                      importedToCoinTracking |-> FALSE]
       IN /\ disk' = [disk EXCEPT !.history = addImportRecord(@, record)]
          /\ opts' = [call |-> <<"addImportRecord", record>>, before |-> disk.history]
  /\ UNCHANGED <<entry, cutoff, csvRows, tokenSymbols, files, symbolQuery, par,
                 pc, nativeByHash, processedFeeHashes, tokenResult, nativeResult,
                 internalResult, nft721Result, nft1155Result, allRows, trace>>

NextHistory == AddImportRecord

SpecHistory == InitHistory /\ [][NextHistory]_vars

\* ------------------------------------------------------- convertCommand
\* convertCommand from its options to its last write.  It is handed at most
\* MaxFiles CSV files: native exports with one deposit (of 0xa or of 0xb),
\* an internal export with one withdrawal of 0xa, or a file of no known type.
\* The mode is the interactive file selection, --dir, or explicit file
\* options (then one file per type, and at least one); --dry-run is given or
\* not; the address is given by --address, or typed at the prompt and then
\* saved under a name or not.  The data directory starts empty.  The chain
\* and the native symbol are those of `config`, whose Exchange label is the
\* one of an address without a name.
MaxFiles == 2

CommandRunFiles ==
  {[type |-> "native", rows |-> <<r>>] : r \in CutoffRunNative}
  \cup {[type |-> "internal", rows |-> <<r>>] :
          r \in {x \in internalCsv({"0xa"}, {<<User, Other>>}, {"0", "1"}) :
                   x.valueIn = "0" /\ x.valueOut = "1"}}
  \cup {[type |-> "unknown", rows |-> <<>>]}

InitCommand ==
  /\ pc = "files"
  /\ nativeByHash = <<>>
  /\ processedFeeHashes = {}
  /\ tokenResult = [rows |-> <<>>, processedHashes |-> {}]
  /\ nativeResult = <<>>
  /\ internalResult = <<>>
  /\ nft721Result = <<>>
  /\ nft1155Result = <<>>
  /\ allRows = <<>>
  /\ trace = <<>>
  /\ entry = "convert"
  /\ cutoff = <<>>
  /\ tokenSymbols = <<>>
  /\ nativeRows = <<>>
  /\ tokenRows = <<>>
  /\ internalRows = <<>>
  /\ nft721Rows = <<>>
  /\ nft1155Rows = <<>>
  /\ symbolQuery = <<>>
  /\ par = <<>>
  /\ disk = emptyDisk
  /\ \E n \in 0..MaxFiles : files \in seqsOf(n, CommandRunFiles)
  /\ \E mode \in {"interactive", "dir", "cli"} :
     \E dryRun \in BOOLEAN :
     \E address \in {<<>>, <<RawUser>>} :
     \E save \in BOOLEAN :
       /\ (address # <<>> => ~save)
       /\ (mode = "cli" =>
            /\ files # <<>>
            /\ \A i \in 1..Len(files) :
                 /\ files[i].type # "unknown"
                 /\ \A j \in 1..Len(files) : files[j].type = files[i].type => j = i)
       /\ opts = [mode |-> mode, dryRun |-> dryRun, address |-> address, save |-> save,
                  detectedFiles |-> <<>>, chosen |-> chosenFiles(<<>>),
                  importId |-> <<>>]

\* The three branches that settle the files: the confirmed files of the
\* interactive selection (none: the command ends), the CSV files of --dir
\* with the directory name as import id, or the files named by the options.
\* Each branch keeps the first path of a type.
SelectFiles ==
  /\ pc = "files"
  /\ LET known == SelectSeq(files, LAMBDA f : f.type # "unknown")
     IN IF opts.mode = "interactive" /\ known = <<>>
        THEN /\ pc' = "exit"
             /\ opts' = opts
        ELSE /\ pc' = "address"
             /\ opts' = [opts EXCEPT
                          !.detectedFiles = known,
                          !.chosen = chosenFiles(IF opts.mode = "dir" THEN files ELSE known),
                          !.importId = IF opts.mode = "dir" THEN <<"mantle-1">> ELSE <<>>]
  /\ UNCHANGED <<entry, cutoff, csvRows, tokenSymbols, files, disk, symbolQuery, par,
                 nativeByHash, processedFeeHashes, tokenResult, nativeResult,
                 internalResult, nft721Result, nft1155Result, allRows, trace>>

\* Without --address the address is asked for: one typed in that is not yet
\* saved is saved when the user says so.
PromptForAddress ==
  /\ pc = "address"
  /\ disk' =
       IF opts.address = <<>>
          /\ findIndex({i \in 1..Len(disk.addresses) :
                         toLowerCase(disk.addresses[i].address) = toLowerCase(RawUser)}) = 0
          /\ opts.save
       THEN [disk EXCEPT !.addresses = saveAddress(@, [name |-> "Main", address |-> RawUser])]
       ELSE disk
  /\ pc' = "read"
  /\ UNCHANGED <<entry, cutoff, csvRows, tokenSymbols, files, opts, symbolQuery, par,
                 nativeByHash, processedFeeHashes, tokenResult, nativeResult,
                 internalResult, nft721Result, nft1155Result, allRows, trace>>

\* readCsv of the chosen file of each type.  `chosen` holds positions in the
\* list the choice was made from.
ReadCsv ==
  /\ pc = "read"
  /\ LET from == IF opts.mode = "dir" THEN files ELSE opts.detectedFiles
     IN /\ nativeRows' = readCsv(from, opts.chosen["native"])
        /\ tokenRows' = readCsv(from, opts.chosen["tokens"])
        /\ internalRows' = readCsv(from, opts.chosen["internal"])
        /\ nft721Rows' = readCsv(from, opts.chosen["nft721"])
        /\ nft1155Rows' = readCsv(from, opts.chosen["nft1155"])
  /\ pc' = "index"
  /\ UNCHANGED <<entry, cutoff, tokenSymbols, files, opts, disk, symbolQuery, par,
                 nativeByHash, processedFeeHashes, tokenResult, nativeResult,
                 internalResult, nft721Result, nft1155Result, allRows, trace>>

\* A last step that writes whether or not --dry-run was given.
WriteOutputAlways ==
  /\ pc = "done"
  /\ LET outputPath == IF opts.importId # <<>> THEN getOutputFile(opts.importId[1])
                       ELSE "cointracking-output.csv"
         record == [id |-> opts.importId[1], rowCount |-> Len(allRows),
                    importedToCoinTracking |-> FALSE]
     IN disk' = [disk EXCEPT
                   !.outputs = @ \cup {[path |-> outputPath, rows |-> allRows]},
                   !.imports = IF opts.detectedFiles # <<>>
                               THEN saveImport(@, opts.detectedFiles, outputPath,
                                               Len(allRows))
                               ELSE @,
                   !.history = IF opts.importId # <<>>
                               THEN addImportRecord(@, record) ELSE @]
  /\ pc' = "exit"
  /\ UNCHANGED <<entry, cutoff, csvRows, tokenSymbols, files, opts, symbolQuery, par,
                 nativeByHash, processedFeeHashes, tokenResult, nativeResult,
                 internalResult, nft721Result, nft1155Result, allRows, trace>>

\* After the sort: a dry run returns; otherwise the output is written, the
\* import is saved when there are detected files, and the history gets its
\* record when there is an import id.
WriteOutput ==
  /\ pc = "done"
  /\ LET outputPath == IF opts.importId # <<>> THEN getOutputFile(opts.importId[1])
                       ELSE "cointracking-output.csv"
         record == [id |-> opts.importId[1], rowCount |-> Len(allRows),
                    importedToCoinTracking |-> FALSE]
     IN disk' =
          IF opts.dryRun THEN disk
          ELSE [disk EXCEPT
                  !.outputs = @ \cup {[path |-> outputPath, rows |-> allRows]},
                  !.imports = IF opts.detectedFiles # <<>>
                              THEN saveImport(@, opts.detectedFiles, outputPath,
                                              Len(allRows))
                              ELSE @,
                  !.history = IF opts.importId # <<>>
                              THEN addImportRecord(@, record) ELSE @]
  /\ pc' = "exit"
  /\ UNCHANGED <<entry, cutoff, csvRows, tokenSymbols, files, opts, symbolQuery, par,
                 nativeByHash, processedFeeHashes, tokenResult, nativeResult,
                 internalResult, nft721Result, nft1155Result, allRows, trace>>

NextCommand ==
  \/ SelectFiles
  \/ PromptForAddress
  \/ ReadCsv
  \/ BuildIndex
  \/ TokenStage
  \/ NativeStage
  \/ InternalStage
  \/ Nft721Stage
  \/ Nft1155Stage
  \/ SortRows
  \/ WriteOutput

SpecCommand == InitCommand /\ [][NextCommand]_vars

\* ================================================================ claims
\* The hash a row was emitted for: every comment ends in the txHash.
rowHash(row) == row.Comment[2]

rowsFor(rows, h) == {i \in 1..Len(rows) : rowHash(rows[i]) = h}

feeRowsFor(rows, h) == {i \in rowsFor(rows, h) : rows[i].Fee # ""}

emittedHashes == {rowHash(allRows[i]) : i \in 1..Len(allRows)}

hasRowFor(rows, h) == rowsFor(rows, h) # {}

tradeHashes(rows) == {rowHash(rows[i]) : i \in {k \in 1..Len(rows) : rows[k].Type = "Trade"}}

\* C1: in a run, at most one of the rows emitted for a hash has a non-empty
\* Fee, and every row with an empty Fee has an empty FeeCurrency.
C1_FeeAtMostOncePerHash ==
  /\ \A h \in emittedHashes : Cardinality(feeRowsFor(allRows, h)) <= 1
  /\ \A i \in 1..Len(allRows) : allRows[i].Fee = "" => allRows[i].FeeCurrency = ""

\* Two transformers emitted a row for the same hash; one row has the fee and
\* the other has none.
C1_Witness ==
  /\ pc = "done"
  /\ \E h \in emittedHashes :
       /\ hasRowFor(nativeResult, h)
       /\ hasRowFor(internalResult, h) \/ hasRowFor(nft721Result, h)
       /\ Cardinality(feeRowsFor(allRows, h)) = 1
       /\ Cardinality(rowsFor(allRows, h)) >= 2

\* C2: at the end of a run, every hash whose native record has fee > 0 and
\* for which a row other than an Other Fee row was emitted has exactly one
\* row carrying the fee in its Fee field.
C2_FeeOnExactlyOneRow ==
  pc = "done" =>
    \A h \in DOMAIN nativeByHash :
      (/\ nativeByHash[h].fee > 0
       /\ \E i \in rowsFor(allRows, h) : allRows[i].Type # "Other Fee")
      => /\ Cardinality(feeRowsFor(allRows, h)) = 1
         /\ \A i \in feeRowsFor(allRows, h) :
              allRows[i].Fee = ToString(nativeByHash[h].fee)

\* C3: the Native transformer emits no row for a hash for which the Token
\* transformer emitted a Trade.
C3_NoNativeRowForTradeHash ==
  \A h \in tradeHashes(tokenResult.rows) : ~hasRowFor(nativeResult, h)

\* The run is over, the Token transformer made a Trade of a hash whose native
\* record is a withdrawal of the wallet, and the native rows hold no row of it.
C3_Witness ==
  /\ pc = "done"
  /\ \E h \in tradeHashes(tokenResult.rows) :
       /\ h \in DOMAIN nativeByHash
       /\ classifyNativeTx(nativeByHash[h], config.address) = "withdrawal"
       /\ ~hasRowFor(nativeResult, h)

\* C4: once the Native transformer has run, every native record that its
\* classification turns into a row, and whose hash the Token transformer did
\* not make a Trade of, has a row among the native rows.
C4_SkipOnlyTradeHashes ==
  (\E k \in 1..Len(trace) : trace[k] = "native") =>
    LET txs == parseNativeRows(nativeRows)
    IN \A i \in 1..Len(txs) :
         (/\ txs[i].txHash \notin tradeHashes(tokenResult.rows)
          /\ transformNativeTx(txs[i], config, {}).rows # <<>>)
         => hasRowFor(nativeResult, txs[i].txHash)

\* The order of the transformer calls of each orchestrator.
stageOrder(e) ==
  IF e = "convert" THEN <<"token", "native", "internal", "nft721", "nft1155">>
  ELSE <<"token", "native", "internal">>

isPrefix(s, t) == Len(s) <= Len(t) /\ \A i \in 1..Len(s) : s[i] = t[i]

C5_StageOrderState ==
  /\ isPrefix(trace, stageOrder(entry))
  /\ (pc \in {"sort", "done"} => trace = stageOrder(entry))
  /\ (trace # <<>> => nativeByHash = indexNativeByHash(parseNativeRows(nativeRows)))
  /\ (pc = "index" => trace = <<>>)
  /\ \A h \in tokenResult.processedHashes : ~hasRowFor(nativeResult, h)

C5_StageOrderStep ==
  /\ processedFeeHashes \subseteq processedFeeHashes'
  /\ (trace # <<>> =>
        /\ nativeByHash' = nativeByHash
        /\ tokenResult'.processedHashes = tokenResult.processedHashes)

ran(stage) == \E k \in 1..Len(trace) : trace[k] = stage

internalTxs == parseInternalRows(internalRows)

\* The internal records whose hash no other internal record of the run has:
\* the rows emitted for such a hash are the rows of that record.
aloneInternal ==
  {i \in 1..Len(internalTxs) :
     \A j \in 1..Len(internalTxs) : internalTxs[j].txHash = internalTxs[i].txHash => j = i}

internalRowsOf(h) == SelectSeq(internalResult, LAMBDA r : rowHash(r) = h)

\* The two cases of section 4.5: a deposit is a record with valueIn > 0 sent
\* to the wallet by another account, a withdrawal one with valueOut > 0 sent
\* by the wallet.
incomingCase(tx) == tx.valueIn > 0 /\ tx.to = User /\ tx.from # User

outgoingCase(tx) == tx.valueOut > 0 /\ tx.from = User

\* The wallet sends to itself and the native record has the same positive
\* valueIn: isDuplicate takes the record for covered whatever its valueOut.
selfCovered(tx, nativeTx) ==
  tx.to = User /\ nativeTx.valueIn > 0 /\ nativeTx.valueIn = tx.valueIn

\* C6 as stated: for an internal record whose hash is in the Native Index, an
\* incoming record with the native valueIn, or an outgoing record with the
\* native valueOut, gives no row; with a different value it gives exactly one
\* row, a Deposit when incoming and a Withdrawal when outgoing.
C6_DedupOrExactlyOneRow ==
  ran("internal") =>
    \A i \in aloneInternal :
      LET tx == internalTxs[i]
          out == internalRowsOf(tx.txHash)
      IN tx.txHash \in DOMAIN nativeByHash =>
           LET nativeTx == nativeByHash[tx.txHash]
           IN /\ incomingCase(tx) =>
                   IF nativeTx.valueIn = tx.valueIn THEN out = <<>>
                   ELSE Len(out) = 1 /\ out[1].Type = "Deposit"
              /\ outgoingCase(tx) =>
                   IF nativeTx.valueOut = tx.valueOut THEN out = <<>>
                   ELSE Len(out) = 1 /\ out[1].Type = "Withdrawal"

\* C6 amended: as C6, except that an outgoing record which the wallet sends
\* to itself and whose valueIn is the native record's positive valueIn gives
\* no row even when its valueOut differs from the native valueOut.  The one
\* row has the record's amount in the native symbol.
C6_DedupOrOneRowUnlessSelfCovered ==
  ran("internal") =>
    \A i \in aloneInternal :
      LET tx == internalTxs[i]
          out == internalRowsOf(tx.txHash)
      IN tx.txHash \in DOMAIN nativeByHash =>
           LET nativeTx == nativeByHash[tx.txHash]
           IN /\ incomingCase(tx) =>
                   IF nativeTx.valueIn = tx.valueIn THEN out = <<>>
                   ELSE /\ Len(out) = 1
                        /\ out[1].Type = "Deposit"
                        /\ out[1].BuyAmount = ToString(tx.valueIn)
                        /\ out[1].BuyCurrency = NativeSymbol
              /\ outgoingCase(tx) =>
                   IF nativeTx.valueOut = tx.valueOut \/ selfCovered(tx, nativeTx)
                   THEN out = <<>>
                   ELSE /\ Len(out) = 1
                        /\ out[1].Type = "Withdrawal"
                        /\ out[1].SellAmount = ToString(tx.valueOut)
                        /\ out[1].SellCurrency = NativeSymbol

\* The Internal transformer has run on an incoming record whose valueIn the
\* native record of its hash repeats, and has emitted nothing for it.
C6_Witness ==
  /\ ran("internal")
  /\ \E i \in aloneInternal :
       /\ internalTxs[i].txHash \in DOMAIN nativeByHash
       /\ incomingCase(internalTxs[i])
       /\ nativeByHash[internalTxs[i].txHash].valueIn = internalTxs[i].valueIn
       /\ internalRowsOf(internalTxs[i].txHash) = <<>>

\* ------------------------------------------------------ token-leg groups
tokenTxs == parseTokenRows(tokenRows)

tokenHashes == {tokenTxs[i].txHash : i \in 1..Len(tokenTxs)}

\* The user legs of the group of h, in input order.
outgoingLegs(h) ==
  SelectSeq(tokenTxs, LAMBDA t : t.txHash = h /\ t.from = User /\ t.to # User)

incomingLegs(h) ==
  SelectSeq(tokenTxs, LAMBDA t : t.txHash = h /\ t.to = User /\ t.from # User)

tokenRowsOf(h) == SelectSeq(tokenResult.rows, LAMBDA r : rowHash(r) = h)

isTradeOf(row, buyAmount, buyCurrency, sellAmount, sellCurrency) ==
  /\ row.Type = "Trade"
  /\ row.BuyAmount = buyAmount
  /\ row.BuyCurrency = buyCurrency
  /\ row.SellAmount = sellAmount
  /\ row.SellCurrency = sellCurrency

\* C7: a group with exactly one outgoing and exactly one incoming user leg
\* gives exactly one row, a Trade that buys the incoming leg's amount and
\* symbol and sells the outgoing leg's.
C7_SimpleSwapIsOneTrade ==
  ran("token") =>
    \A h \in tokenHashes :
      (Len(outgoingLegs(h)) = 1 /\ Len(incomingLegs(h)) = 1) =>
        /\ Len(tokenRowsOf(h)) = 1
        /\ isTradeOf(tokenRowsOf(h)[1],
                     ToString(incomingLegs(h)[1].value), incomingLegs(h)[1].symbol,
                     ToString(outgoingLegs(h)[1].value), outgoingLegs(h)[1].symbol)

\* The Token transformer has run on a group of 1 USDC out and 2 WETH in and
\* emitted a Trade for it.
C7_Witness ==
  /\ ran("token")
  /\ \E h \in tokenHashes :
       /\ Len(outgoingLegs(h)) = 1
       /\ Len(incomingLegs(h)) = 1
       /\ outgoingLegs(h)[1].symbol = "USDC"
       /\ incomingLegs(h)[1].symbol = "WETH"
       /\ Len(tokenRowsOf(h)) = 1
       /\ tokenRowsOf(h)[1].Type = "Trade"

\* C8: a group with at least one outgoing and one incoming user leg and more
\* than two user legs gives exactly one row, a Trade that sells the first
\* outgoing leg and buys the last incoming leg.
C8_MultiLegSwapIsOneTrade ==
  ran("token") =>
    \A h \in tokenHashes :
      LET outs == outgoingLegs(h)
          ins == incomingLegs(h)
      IN (Len(outs) >= 1 /\ Len(ins) >= 1 /\ Len(outs) + Len(ins) > 2) =>
           /\ Len(tokenRowsOf(h)) = 1
           /\ isTradeOf(tokenRowsOf(h)[1],
                        ToString(ins[Len(ins)].value), ins[Len(ins)].symbol,
                        ToString(outs[1].value), outs[1].symbol)

\* A group of three user legs whose two incoming legs differ (or whose two
\* outgoing legs differ) has been collapsed into one Trade.
C8_Witness ==
  /\ ran("token")
  /\ \E h \in tokenHashes :
       LET outs == outgoingLegs(h)
           ins == incomingLegs(h)
       IN /\ Len(outs) + Len(ins) = 3
          /\ Len(outs) >= 1
          /\ Len(ins) >= 1
          /\ (Len(ins) = 2 => ins[1].symbol # ins[2].symbol)
          /\ (Len(outs) = 2 => outs[1].symbol # outs[2].symbol)
          /\ Len(tokenRowsOf(h)) = 1
          /\ tokenRowsOf(h)[1].Type = "Trade"

\* The native payment the Native Index holds for h: its valueOut, or 0.
nativePaid(h) == IF h \in DOMAIN nativeByHash THEN nativeByHash[h].valueOut ELSE 0

\* C9: in a group with incoming and no outgoing user legs, the k-th incoming
\* leg gives the k-th row of the hash: a Trade of the token against the
\* native valueOut in the native symbol if the index record of the hash has
\* valueOut > 0, otherwise an Airdrop if the sender is the zero address and a
\* Deposit if not.
C9_IncomingOnly ==
  ran("token") =>
    \A h \in tokenHashes :
      LET ins == incomingLegs(h)
          out == tokenRowsOf(h)
      IN (Len(ins) >= 1 /\ Len(outgoingLegs(h)) = 0) =>
           /\ Len(out) = Len(ins)
           /\ \A k \in 1..Len(ins) :
                IF nativePaid(h) > 0
                THEN isTradeOf(out[k], ToString(ins[k].value), ins[k].symbol,
                               ToString(nativePaid(h)), NativeSymbol)
                ELSE /\ out[k].Type = IF ins[k].from = ZERO_ADDRESS
                                      THEN "Airdrop" ELSE "Deposit"
                     /\ out[k].BuyAmount = ToString(ins[k].value)
                     /\ out[k].BuyCurrency = ins[k].symbol
                     /\ out[k].SellAmount = ""
                     /\ out[k].SellCurrency = ""

\* An incoming-only group of a hash whose native record paid 1 ETH has been
\* turned into a Trade against ETH.
C9_Witness ==
  /\ ran("token")
  /\ \E h \in tokenHashes :
       /\ Len(incomingLegs(h)) >= 1
       /\ Len(outgoingLegs(h)) = 0
       /\ nativePaid(h) > 0
       /\ tokenRowsOf(h)[1].Type = "Trade"
       /\ tokenRowsOf(h)[1].SellCurrency = NativeSymbol

\* C10: in a group with outgoing and no incoming user legs, the k-th outgoing
\* leg gives the k-th row of the hash, a Withdrawal of the leg's amount and
\* symbol whose comment is the burn comment iff the recipient is the zero
\* address; no row of the hash is a Trade, whatever the index holds.
C10_OutgoingOnly ==
  ran("token") =>
    \A h \in tokenHashes :
      LET outs == outgoingLegs(h)
          out == tokenRowsOf(h)
      IN (Len(outs) >= 1 /\ Len(incomingLegs(h)) = 0) =>
           /\ Len(out) = Len(outs)
           /\ \A k \in 1..Len(outs) :
                /\ out[k].Type = "Withdrawal"
                /\ out[k].SellAmount = ToString(outs[k].value)
                /\ out[k].SellCurrency = outs[k].symbol
                /\ out[k].BuyAmount = ""
                /\ out[k].Comment[1] = IF outs[k].to = ZERO_ADDRESS
                                       THEN "Token burn" ELSE "Token out"

\* An outgoing-only group with a burn, of a hash whose native record paid
\* 1 ETH, has been turned into Withdrawals.
C10_Witness ==
  /\ ran("token")
  /\ \E h \in tokenHashes :
       /\ Len(incomingLegs(h)) = 0
       /\ nativePaid(h) > 0
       /\ \E k \in 1..Len(outgoingLegs(h)) : outgoingLegs(h)[k].to = ZERO_ADDRESS
       /\ Len(tokenRowsOf(h)) = Len(outgoingLegs(h))
       /\ \A k \in 1..Len(tokenRowsOf(h)) : tokenRowsOf(h)[k].Type = "Withdrawal"

\* ------------------------------------------------------- native records
nativeTxs == parseNativeRows(nativeRows)

\* The native records whose hash no other native record of the run has: the
\* native rows of such a hash are the rows of that record.
aloneNative ==
  {i \in 1..Len(nativeTxs) :
     \A j \in 1..Len(nativeTxs) : nativeTxs[j].txHash = nativeTxs[i].txHash => j = i}

nativeRowsOf(h) == SelectSeq(nativeResult, LAMBDA r : rowHash(r) = h)

isDepositOf(row, amount, currency, comment) ==
  /\ row.Type = "Deposit"
  /\ row.BuyAmount = amount
  /\ row.BuyCurrency = currency
  /\ row.SellAmount = ""
  /\ row.SellCurrency = ""
  /\ row.Comment[1] = comment

\* C11: a native record gives at most one row, by the first rule that
\* matches: no value and no fee -> none; valueIn > 0 from the wallet to
\* itself -> Deposit "Bridge deposit"; valueIn > 0 to the wallet from another
\* account -> Deposit; valueOut > 0 from the wallet -> Withdrawal; no value
\* and fee > 0 -> Other Fee; anything else -> none.
C11_NativeFirstMatch ==
  ran("native") =>
    \A i \in aloneNative :
      LET tx == nativeTxs[i]
          out == nativeRowsOf(tx.txHash)
      IN /\ Len(out) <= 1
         /\ IF tx.valueIn = 0 /\ tx.valueOut = 0 /\ tx.fee = 0 THEN out = <<>>
            ELSE IF tx.valueIn > 0 /\ tx.from = User /\ tx.to = User
            THEN /\ Len(out) = 1
                 /\ isDepositOf(out[1], ToString(tx.valueIn), NativeSymbol, "Bridge deposit")
            ELSE IF tx.valueIn > 0 /\ tx.to = User /\ tx.from # User
            THEN /\ Len(out) = 1
                 /\ isDepositOf(out[1], ToString(tx.valueIn), NativeSymbol, "Native in")
            ELSE IF tx.valueOut > 0 /\ tx.from = User
            THEN /\ Len(out) = 1
                 /\ out[1].Type = "Withdrawal"
                 /\ out[1].SellAmount = ToString(tx.valueOut)
                 /\ out[1].SellCurrency = NativeSymbol
            ELSE IF tx.valueIn = 0 /\ tx.valueOut = 0 /\ tx.fee > 0
            THEN Len(out) = 1 /\ out[1].Type = "Other Fee"
            ELSE out = <<>>

\* The Native transformer has run on a transfer of the wallet to itself that
\* carries both a valueIn and a valueOut, and reported a bridge deposit.
C11_Witness ==
  /\ ran("native")
  /\ \E i \in aloneNative :
       /\ nativeTxs[i].from = User
       /\ nativeTxs[i].to = User
       /\ nativeTxs[i].valueIn > 0
       /\ nativeTxs[i].valueOut > 0
       /\ Len(nativeRowsOf(nativeTxs[i].txHash)) = 1
       /\ nativeRowsOf(nativeTxs[i].txHash)[1].Comment[1] = "Bridge deposit"

C13_FeeOnlyLeavesLedger ==
  (ran("native") /\ tokenRows = <<>>) =>
    ((\A i \in 1..Len(nativeTxs) :
        nativeTxs[i].valueIn = 0 /\ nativeTxs[i].valueOut = 0 /\ nativeTxs[i].fee > 0)
     => processedFeeHashes = {})

\* ---------------------------------------------------------- NFT transfers
nftTxs == parseNftRows(nft721Rows, FALSE) \o parseNftRows(nft1155Rows, TRUE)

nftResult == nft721Result \o nft1155Result

\* The NFT transfers whose hash no other NFT transfer of the run has.
aloneNft ==
  {i \in 1..Len(nftTxs) :
     \A j \in 1..Len(nftTxs) : nftTxs[j].txHash = nftTxs[i].txHash => j = i}

nftRowsOf(h) == SelectSeq(nftResult, LAMBDA r : rowHash(r) = h)

\* "NFT:{symbol}#{tokenId}"
nftCurrencyOf(tx) == <<"NFT:", tx.tokenSymbol, "#", tx.tokenId>>

\* C14: an NFT transfer gives at most one row.  Received by the wallet from
\* another address: a Trade against the native valueOut if the index record
\* of the hash has valueOut > 0, else an Airdrop if the sender is the zero
\* address, else a Deposit.  Sent by the wallet to another address: Lost if
\* the recipient is the zero address, else a Withdrawal, with SellCurrency
\* "NFT:{symbol}#{tokenId}".  Any other transfer: no row.
C14_NftClassification ==
  ran("nft1155") =>
    \A i \in aloneNft :
      LET tx == nftTxs[i]
          out == nftRowsOf(tx.txHash)
      IN IF tx.to = User /\ tx.from # User
         THEN /\ Len(out) = 1
              /\ out[1].BuyCurrency = nftCurrencyOf(tx)
              /\ IF nativePaid(tx.txHash) > 0
                 THEN /\ out[1].Type = "Trade"
                      /\ out[1].SellAmount = ToString(nativePaid(tx.txHash))
                      /\ out[1].SellCurrency = NativeSymbol
                 ELSE /\ out[1].Type = IF tx.from = ZERO_ADDRESS
                                       THEN "Airdrop" ELSE "Deposit"
                      /\ out[1].SellAmount = ""
                      /\ out[1].SellCurrency = ""
         ELSE IF tx.from = User /\ tx.to # User
         THEN /\ Len(out) = 1
              /\ out[1].Type = IF tx.to = ZERO_ADDRESS THEN "Lost" ELSE "Withdrawal"
              /\ out[1].SellCurrency = nftCurrencyOf(tx)
              /\ out[1].BuyCurrency = ""
         ELSE out = <<>>

\* The NFT transformers have run on a mint to the wallet in a transaction
\* that paid 1 ETH, and reported a Trade.
C14_Witness ==
  /\ ran("nft1155")
  /\ \E i \in aloneNft :
       /\ nftTxs[i].from = ZERO_ADDRESS
       /\ nftTxs[i].to = User
       /\ nativePaid(nftTxs[i].txHash) > 0
       /\ Len(nftRowsOf(nftTxs[i].txHash)) = 1
       /\ nftRowsOf(nftTxs[i].txHash)[1].Type = "Trade"

\* C15: no row emitted by the Token or the NFT transformers is a row of an
\* input row without a hash, and none has a zero amount.
C15_NoZeroAmountRow ==
  ran("nft1155") =>
    LET emitted == tokenResult.rows \o nftResult
    IN \A i \in 1..Len(emitted) :
         /\ rowHash(emitted[i]) # ""
         /\ emitted[i].BuyAmount # "0"
         /\ emitted[i].SellAmount # "0"

\* ------------------------------------------------------ the final output
\* The rows the transformers returned, in the order of the calls.
transformedRows ==
  tokenResult.rows \o nativeResult \o internalResult \o nft721Result \o nft1155Result

countOf(rows, row) == Cardinality({i \in 1..Len(rows) : rows[i] = row})

\* C16: when a cutoff is configured, the final output holds no row dated
\* before the cutoff and holds every transformed row dated on or after it.
C16_CutoffFilter ==
  (pc = "done" /\ cutoff # <<>>) =>
    /\ \A i \in 1..Len(allRows) :
         dayjsValueOf(allRows[i].Date) >= dayjsValueOf(cutoff[1])
    /\ \A i \in 1..Len(transformedRows) :
         dayjsValueOf(transformedRows[i].Date) >= dayjsValueOf(cutoff[1])
         => countOf(allRows, transformedRows[i]) >= countOf(transformedRows, transformedRows[i])

\* C17: the final output is in ascending order of Date: of two consecutive
\* rows the first is not dated later than the second.
C17_OutputSortedByDate ==
  pc = "done" =>
    \A i \in 1..(Len(allRows) - 1) :
      dayjsValueOf(allRows[i].Date) <= dayjsValueOf(allRows[i + 1].Date)

\* A run has ended whose transformers returned a row of 2024-01-02 before a
\* row of 2024-01-01; the output holds the same rows, the earlier one first.
C17_Witness ==
  /\ pc = "done"
  /\ Len(allRows) >= 2
  /\ \E i \in 1..(Len(transformedRows) - 1) :
       dayjsValueOf(transformedRows[i].Date) > dayjsValueOf(transformedRows[i + 1].Date)
  /\ \A i \in 1..Len(allRows) :
       countOf(allRows, allRows[i]) = countOf(transformedRows, allRows[i])
  /\ dayjsValueOf(allRows[1].Date) < dayjsValueOf(allRows[Len(allRows)].Date)

\* ------------------------------------------------------ the Native Index
\* C18: once built, the Native Index has exactly the non-empty hashes of the
\* native rows as keys, and maps each to the record of the last native row
\* with that hash in input order.
C18_IndexLastWins ==
  pc # "index" =>
    /\ DOMAIN nativeByHash
         = {toTxHash(nativeRows[i].txHash) : i \in 1..Len(nativeRows)} \ {""}
    /\ \A i \in 1..Len(nativeRows) :
         LET h == toTxHash(nativeRows[i].txHash)
         IN (/\ h # ""
             /\ \A j \in (i + 1)..Len(nativeRows) : toTxHash(nativeRows[j].txHash) # h)
            => nativeByHash[h] = parseNativeRow(nativeRows[i])

\* The index has been built from an export with two different rows of one
\* hash, and holds the second.
C18_Witness ==
  /\ pc # "index"
  /\ \E i, j \in 1..Len(nativeRows) :
       /\ i < j
       /\ nativeRows[i].txHash = nativeRows[j].txHash
       /\ nativeRows[i] # nativeRows[j]
       /\ nativeRows[j].txHash \in DOMAIN nativeByHash
       /\ nativeByHash[nativeRows[j].txHash].valueIn = normalizeNumber(nativeRows[j].valueIn)
       /\ nativeByHash[nativeRows[j].txHash].valueIn # normalizeNumber(nativeRows[i].valueIn)

\* C19: no transformer changes the Native Index: across every call of the
\* Token, Native, Internal and NFT transformers the index has the same keys
\* and the same record under each key.
C19_IndexUnchangedStep ==
  trace' # trace =>
    /\ DOMAIN nativeByHash' = DOMAIN nativeByHash
    /\ \A h \in DOMAIN nativeByHash : nativeByHash'[h] = nativeByHash[h]

C19_IndexUnchanged == [][C19_IndexUnchangedStep]_vars

\* A run has ended in which the Internal transformer looked up a record of
\* the index and put its fee on a row; the record is still in the index.
C19_Witness ==
  /\ pc = "done"
  /\ \E i \in 1..Len(internalResult) :
       /\ internalResult[i].Fee # ""
       /\ rowHash(internalResult[i]) \in DOMAIN nativeByHash
       /\ internalResult[i].Fee = ToString(nativeByHash[rowHash(internalResult[i])].fee)

\* ------------------------------------------------------- absent lookups
\* The rows the Token, Internal and NFT transformers emitted for h.
lookupRowsOf(h) ==
  SelectSeq(tokenResult.rows \o internalResult \o nft721Result \o nft1155Result,
            LAMBDA r : rowHash(r) = h)

\* The hashes of the token, internal and NFT records of the run.
lookupHashes ==
  tokenHashes \cup {internalTxs[i].txHash : i \in 1..Len(internalTxs)}
              \cup {nftTxs[i].txHash : i \in 1..Len(nftTxs)}

\* C20: for a hash the Native Index does not hold, the token, internal and
\* NFT records are still turned into rows (a deposit or withdrawal of the
\* wallet gives its row), every such row has an empty Fee and FeeCurrency and
\* is no Trade against the native coin, and the hash is not put in the Fee
\* Ledger.
C20_AbsentLookup ==
  pc = "done" =>
    \A h \in lookupHashes \ DOMAIN nativeByHash :
      /\ h \notin processedFeeHashes
      /\ \A k \in 1..Len(lookupRowsOf(h)) :
           LET row == lookupRowsOf(h)[k]
           IN /\ row.Fee = ""
              /\ row.FeeCurrency = ""
              /\ (row.Type = "Trade" => row.SellCurrency # NativeSymbol)
              /\ row.Comment[1] \notin {"NFT purchase (trade)", "NFT mint (trade)"}
      /\ \A i \in 1..Len(internalTxs) :
           (internalTxs[i].txHash = h
            /\ (incomingCase(internalTxs[i]) \/ outgoingCase(internalTxs[i])))
           => hasRowFor(internalResult, h)
      /\ \A i \in 1..Len(nftTxs) :
           (nftTxs[i].txHash = h /\ User \in {nftTxs[i].from, nftTxs[i].to}
            /\ nftTxs[i].from # nftTxs[i].to)
           => hasRowFor(nftResult, h)
      /\ (h \in tokenHashes /\ Len(outgoingLegs(h)) + Len(incomingLegs(h)) > 0)
           => hasRowFor(tokenResult.rows, h)

\* A run has ended with rows of the Token and of the Internal transformer
\* for a hash that the native export does not hold.
C20_Witness ==
  /\ pc = "done"
  /\ nativeByHash # <<>>
  /\ \E h \in lookupHashes \ DOMAIN nativeByHash :
       /\ hasRowFor(tokenResult.rows, h)
       /\ hasRowFor(internalResult, h) \/ hasRowFor(nftResult, h)

expectedTokenDefaults ==
  [symbol \in {"ATOM", "STARS", "TIA"} |-> symbol \o (IF symbol = "ATOM" THEN "2" ELSE "3")]

\* Override first, then the built-in default, then the original.
precedence(overrides, defaults, key, original) ==
  IF key \in DOMAIN overrides THEN overrides[key]
  ELSE IF key \in DOMAIN defaults THEN defaults[key]
  ELSE original

\* C22: a resolved symbol is the user's override when the overrides file has
\* one for the key, else the built-in default when there is one, else the
\* original symbol: for a native symbol (key: the chain) and for a token
\* symbol (key: the raw token symbol).
C22_SymbolPrecedence ==
  symbolQuery.asked # <<>> =>
    symbolQuery.answer =
      IF symbolQuery.asked[1] = "native"
      THEN precedence(symbolQuery.nativeSymbols, COINTRACKING_NATIVE_SYMBOLS,
                      symbolQuery.asked[2], symbolQuery.asked[3])
      ELSE precedence(tokenSymbols, expectedTokenDefaults,
                      symbolQuery.asked[2], symbolQuery.asked[3])

\* The positions of the saved-address list that hold the address, compared
\* without regard to case.
savedAt(addresses, address) ==
  {i \in 1..Len(addresses) : toLowerCase(addresses[i].address) = toLowerCase(address)}

\* C25: after any sequence of saveAddress and removeAddress calls from an
\* empty store, no two entries of the list have the same address compared
\* case-insensitively, every stored address is lowercase, and a saveAddress
\* of an address that was already stored leaves the list as long as it was,
\* with the new name on the entry of that address.
C25_SavedAddresses ==
  /\ \A i \in 1..Len(disk.addresses) :
       /\ disk.addresses[i].address = toLowerCase(disk.addresses[i].address)
       /\ savedAt(disk.addresses, disk.addresses[i].address) = {i}
  /\ (opts.call # <<>> /\ opts.call[1] = "saveAddress"
      /\ savedAt(opts.before, opts.call[2].address) # {})
     => /\ Len(disk.addresses) = Len(opts.before)
        /\ \A i \in savedAt(opts.before, opts.call[2].address) :
             disk.addresses[i] = [name |-> opts.call[2].name,
                                  address |-> toLowerCase(opts.call[2].address)]
        /\ \A i \in 1..Len(opts.before) :
             i \notin savedAt(opts.before, opts.call[2].address)
             => disk.addresses[i] = opts.before[i]

\* The wallet was saved in lower case under one name and has just been saved
\* again in mixed case under another, next to a second address.
C25_Witness ==
  /\ opts.call = <<"saveAddress", [name |-> "Cold", address |-> RawUser]>>
  /\ \E i \in 1..Len(opts.before) : opts.before[i] = [name |-> "Main", address |-> User]
  /\ Len(disk.addresses) = 2

\* The positions of the import history that hold a record of the id.
recordedAt(imports, id) == {i \in 1..Len(imports) : imports[i].id = id}

\* C26: after any sequence of addImportRecord calls the history holds at
\* most one record per import id; a call whose id was already present leaves
\* the list as long as it was, puts the new record at the position of the old
\* one and changes no other record, and a call with a new id appends.
C26_OneRecordPerId ==
  /\ \A i \in 1..Len(disk.history) :
       recordedAt(disk.history, disk.history[i].id) = {i}
  /\ opts.call # <<>> =>
       LET record == opts.call[2]
           old == recordedAt(opts.before, record.id)
       IN IF old # {}
          THEN /\ Len(disk.history) = Len(opts.before)
               /\ \A i \in 1..Len(opts.before) :
                    disk.history[i] = IF i \in old THEN record ELSE opts.before[i]
          ELSE disk.history = Append(opts.before, record)

\* The first of two records has just been replaced by one with another row
\* count.
C26_Witness ==
  /\ opts.call # <<>>
  /\ Len(opts.before) = 2
  /\ opts.before[1].id = opts.call[2].id
  /\ opts.before[1].rowCount # opts.call[2].rowCount
  /\ disk.history[1] = opts.call[2]
  /\ disk.history[2] = opts.before[2]

\* C23: when several CSV files are supplied, in the interactive selection or
\* with --dir, every file of a recognised type is converted: each of its
\* rows has a row in the output, also when it is the second file of a type.
C23_EveryFileConverted ==
  (pc = "exit" /\ opts.mode \in {"interactive", "dir"} /\ opts.detectedFiles # <<>>) =>
    \A i \in 1..Len(opts.detectedFiles) :
      \A k \in 1..Len(opts.detectedFiles[i].rows) :
        hasRowFor(allRows, toTxHash(opts.detectedFiles[i].rows[k].txHash))

C27_NoRowLeavesLedger ==
  (ran("native") /\ tokenRows = <<>>) =>
    \A h \in processedFeeHashes : hasRowFor(nativeResult, h)

\* A Native row of the hash reports the value of the internal record: a
\* Deposit of its valueIn when the record is incoming, a Withdrawal of its
\* valueOut when it is outgoing.
nativeRowReports(tx) ==
  \E k \in 1..Len(nativeResult) :
    LET row == nativeResult[k]
    IN /\ rowHash(row) = tx.txHash
       /\ \/ incomingCase(tx) /\ row.Type = "Deposit"
             /\ row.BuyAmount = ToString(tx.valueIn)
          \/ outgoingCase(tx) /\ row.Type = "Withdrawal"
             /\ row.SellAmount = ToString(tx.valueOut)

\* C28: an internal deposit or withdrawal of the wallet is left without a
\* row only when the output of the run holds a Native row of the same hash
\* that reports its value; when the native record was skipped through
\* skipHashes, or gave no row, the internal record has its row.
C28_DropOnlyWhenNativeRowReports ==
  pc = "done" =>
    \A i \in aloneInternal :
      LET tx == internalTxs[i]
      IN ((incomingCase(tx) \/ outgoingCase(tx)) /\ internalRowsOf(tx.txHash) = <<>>)
         => nativeRowReports(tx)

\* The rows of the run that sell the native currency for the hash.
nativeSellRows(h) ==
  {i \in rowsFor(allRows, h) :
     allRows[i].SellCurrency = NativeSymbol /\ allRows[i].SellAmount # ""}

\* C29: in a run, the native valueOut of a hash is the Sell amount of at
\* most one emitted row, however many incoming token legs the hash has.
C29_NativeValueSoldOnce ==
  \A h \in emittedHashes : Cardinality(nativeSellRows(h)) <= 1

\* The rows of the run that charge the gas fee of the hash: a row with a
\* non-empty Fee, or an Other Fee row, whose Sell amount is the fee.
feeChargedRows(h) ==
  {i \in rowsFor(allRows, h) : allRows[i].Fee # "" \/ allRows[i].Type = "Other Fee"}

\* C30: in a run, the gas fee of a hash is charged at most once in total,
\* counting the rows with a non-empty Fee and the Other Fee rows, also when
\* the native export holds the hash in more than one row.
C30_FeeChargedOnceInTotal ==
  \A h \in emittedHashes : Cardinality(feeChargedRows(h)) <= 1

====
